---- MODULE Spec2Model ----
(***************************************************************************)
(* A model of ssh/tailssh/tailssh.go: the identity-aware SSH server.       *)
(*                                                                         *)
(* Strings on which the code does string operations (user names, the       *)
(* entries of SSHUsers) are sequences of tokens: "alice+password" is       *)
(* <<"alice", "+password">> and "" is <<>>.  Other strings (URLs, banner    *)
(* messages, error texts) are plain strings.                               *)
(***************************************************************************)
EXTENDS Integers, Sequences, FiniteSets, TLC

\* ------------------------------------------------------------------ bounds

\* failed auth attempts the SSH library lets one connection make
MaxAuthTries == 3
\* length of the longest chain of delegate answers one isAuthorized call walks
MaxChain == 2
\* sessions opened in the model (over all connections)
NumSess == 2
\* connections handled in the model
NumConns == 2
\* policy changes (netmap updates followed by OnPolicyChange) in the model
MaxPolicyChanges == 1
\* concurrent calls of fetchPublicKeysURL
NumFetchers == 2
\* the last instant of the clock, which starts at 1
MaxNow == 2
\* rules in a policy given to evaluatePolicy on its own
MaxRules == 2
\* chunks that one copy goroutine reads
MaxChunks == 2

\* ------------------------------------------------------------- the universe

Conns == 1..NumConns
Sess == 1..NumSess

forcePasswordSuffix == "+password"

Star == <<"*">>
Same == <<"=">>
Empty == <<>>

Alice == <<"alice">>
Bob == <<"bob">>
Root == <<"root">>

\* what ctx.User() can be
CtxUsers == {Alice, Bob, <<"alice", forcePasswordSuffix>>}

\* the accounts user.Lookup finds on the host
LocalAccounts == {Alice, Root}

OverlayIP1 == "100.64.0.2"
OverlayIP2 == "100.64.0.3"
PlainIP == "10.0.0.1"

\* tsaddr.IsTailscaleIP
IsTailscaleIP(ip) == ip \in {OverlayIP1, OverlayIP2}

\* netip.ParseAddr: the zero Addr for text that is no address
ParseAddr(s) == IF s \in {OverlayIP1, OverlayIP2, PlainIP} THEN s ELSE "invalid"

\* the peers lb.WhoIs knows, by source address
WhoIsTable ==
    (OverlayIP1 :> [node |-> "n1", login |-> "alice@ex.com"]) @@
    (PlainIP :> [node |-> "n9", login |-> "eve@ex.com"])

NoKey == [nil |-> TRUE, type |-> "", blob |-> ""]
Key1 == [nil |-> FALSE, type |-> "ssh-ed25519", blob |-> "k1"]
Key2 == [nil |-> FALSE, type |-> "ssh-ed25519", blob |-> "k2"]
ClientKeys == {Key1, Key2}

\* base64.StdEncoding.DecodeString, the error dropped: the bytes decoded
B64Decode(s) ==
    CASE s = "azE=" -> "k1"
      [] s = "azI=" -> "k2"
      [] OTHER -> ""

\* authorized-key lines, as their space-separated fields
Line1 == <<"ssh-ed25519", "azE=", "alice@laptop">>
Line2 == <<"ssh-ed25519", "azI=">>
KeysURL == <<"https://ex.com/alice.keys">>

HasHTTPSPrefix(entry) == Len(entry) = 1 /\ entry[1] = "https://ex.com/alice.keys"

\* ---------------------------------------------------------------- actions

NilAction ==
    [nil |-> TRUE, Accept |-> FALSE, Reject |-> FALSE, HoldAndDelegate |-> "",
     Message |-> "", AllowAgentForwarding |-> FALSE,
     AllowLocalPortForwarding |-> FALSE, SessionDuration |-> 0]

MkAction(acc, rej, hold, msg, fwd, dur) ==
    [nil |-> FALSE, Accept |-> acc, Reject |-> rej, HoldAndDelegate |-> hold,
     Message |-> msg, AllowAgentForwarding |-> fwd,
     AllowLocalPortForwarding |-> fwd, SessionDuration |-> dur]

DelegateURL == "https://ctrl/next?u=$SSH_USER"

ActAccept == MkAction(TRUE, FALSE, "", "", FALSE, 0)
ActAcceptFwd == MkAction(TRUE, FALSE, "", "welcome", TRUE, 1)
ActAcceptAgent == [ActAccept EXCEPT !.AllowAgentForwarding = TRUE]
ActReject == MkAction(FALSE, TRUE, "", "nope", FALSE, 0)
ActHold == MkAction(FALSE, FALSE, DelegateURL, "visit the link", FALSE, 0)
ActMalformed == MkAction(FALSE, FALSE, "", "", FALSE, 0)

\* what the delegate can answer with
DelegateActions == {ActAcceptFwd, ActReject, ActHold, ActMalformed}

\* one answer of fetchSSHAction: an action, or the error of a cancelled or
\* timed-out fetch
FetchAnswers ==
    [err : {FALSE}, action : DelegateActions] \cup
    [err : {TRUE}, action : {NilAction}]

RECURSIVE SeqsUpTo(_, _)
SeqsUpTo(S, n) ==
    IF n = 0 THEN {<<>>}
    ELSE LET shorter == SeqsUpTo(S, n - 1)
         IN shorter \cup {Append(q, x) : q \in {r \in shorter : Len(r) = n - 1}, x \in S}

\* --------------------------------------------------------------- policies

MkPrincipal(any, node, ip, login, keys) ==
    [nil |-> FALSE, Any |-> any, Node |-> node, NodeIP |-> ip, UserLogin |-> login,
     PubKeys |-> keys]

MkRule(users, principals, action, expires) ==
    [nil |-> FALSE, SSHUsers |-> users, Principals |-> principals, Action |-> action,
     RuleExpires |-> expires]

AnyUser == (Star :> Same)
AliceOnly == (Alice :> Same) @@ (Star :> Empty)
ToRoot == (Star :> Root)

\* RuleExpires: 0 is a nil pointer, another number the time of expiry
RuleAcceptLogin ==
    MkRule(AliceOnly, <<MkPrincipal(FALSE, "", "", "alice@ex.com", <<>>)>>, ActAccept, 0)
RuleAcceptAgent ==
    MkRule(AliceOnly, <<MkPrincipal(FALSE, "", "", "alice@ex.com", <<>>)>>, ActAcceptAgent, 0)
RuleRejectAny ==
    MkRule(<<>>, <<MkPrincipal(TRUE, "", "", "", <<>>)>>, ActReject, 0)
RuleKey1Accept ==
    MkRule(AnyUser, <<MkPrincipal(TRUE, "", "", "", <<Line1>>)>>, ActAcceptFwd, 0)
RuleKey2Reject ==
    MkRule(AnyUser, <<MkPrincipal(FALSE, "n1", "", "", <<Line2>>)>>, ActReject, 0)
RuleKey2Hold ==
    MkRule(ToRoot, <<MkPrincipal(FALSE, "", OverlayIP1, "", <<Line2>>)>>, ActHold, 0)
RuleHoldAny ==
    MkRule(ToRoot, <<MkPrincipal(TRUE, "", "", "", <<>>)>>, ActHold, 0)
RuleURLAccept ==
    MkRule(AnyUser, <<MkPrincipal(TRUE, "", "", "", <<KeysURL>>)>>, ActAccept, 0)
RuleMalformed ==
    MkRule(AnyUser, <<MkPrincipal(TRUE, "", "", "", <<>>)>>, ActMalformed, 0)

\* the policy sshPolicy returns: NoPolicy when it reports ok = false
NoPolicy == [nil |-> TRUE, Rules |-> <<>>]
MkPolicy(rules) == [nil |-> FALSE, Rules |-> rules]

\* ------------------------------------------------------ policy evaluation

NoInfo == [nil |-> TRUE, sshUser |-> Empty, src |-> "", dst |-> "", node |-> "", login |-> ""]

\* strings.HasSuffix(u, forcePasswordSuffix), strings.TrimSuffix
HasPasswordSuffix(u) == Len(u) > 0 /\ u[Len(u)] = forcePasswordSuffix
TrimPasswordSuffix(u) == IF HasPasswordSuffix(u) THEN SubSeq(u, 1, Len(u) - 1) ELSE u

\* "=" is returned as any other value
mapLocalUserMutNoSame(ruleSSHUsers, reqSSHUser) ==
    IF reqSSHUser \in DOMAIN ruleSSHUsers THEN ruleSSHUsers[reqSSHUser]
    ELSE IF Star \in DOMAIN ruleSSHUsers THEN ruleSSHUsers[Star]
    ELSE Empty

\* v is the zero string when neither the name nor "*" is a key
mapLocalUser(ruleSSHUsers, reqSSHUser) ==
    LET v == IF reqSSHUser \in DOMAIN ruleSSHUsers THEN ruleSSHUsers[reqSSHUser]
             ELSE IF Star \in DOMAIN ruleSSHUsers THEN ruleSSHUsers[Star]
             ELSE Empty
    IN IF v = Same THEN reqSSHUser ELSE v

ruleExpired(r, now) == r.RuleExpires # 0 /\ r.RuleExpires < now

principalMatchesTailscaleIdentity(ci, p) ==
    \/ p.Any
    \/ p.Node # "" /\ ci.node # "" /\ p.Node = ci.node
    \/ p.NodeIP # "" /\ ParseAddr(p.NodeIP) = ci.src
    \/ p.UserLogin # "" /\ ci.login = p.UserLogin

pubKeyMatchesAuthorizedKey(pubKey, wantKey) ==
    /\ Len(wantKey) >= 2
    /\ pubKey.type = wantKey[1]
    /\ B64Decode(wantKey[2]) # ""
    /\ pubKey.blob = B64Decode(wantKey[2])

\* fetch is what fetchPublicKeysURL returns during this evaluation; fetched
\* tells whether it was called
principalMatchesPubKey(p, clientPubKey, fetch) ==
    IF Len(p.PubKeys) = 0 THEN [ok |-> TRUE, err |-> FALSE, fetched |-> FALSE]
    ELSE IF clientPubKey.nil THEN [ok |-> FALSE, err |-> FALSE, fetched |-> FALSE]
    ELSE LET viaURL == Len(p.PubKeys) = 1 /\ HasHTTPSPrefix(p.PubKeys[1])
             knownKeys == IF viaURL THEN fetch.lines ELSE p.PubKeys
         IN IF viaURL /\ fetch.err THEN [ok |-> FALSE, err |-> TRUE, fetched |-> TRUE]
            ELSE [ok |-> \E i \in 1..Len(knownKeys) :
                            pubKeyMatchesAuthorizedKey(clientPubKey, knownKeys[i]),
                  err |-> FALSE, fetched |-> viaURL]

principalMatches(ci, p, pubKey, fetch) ==
    IF ~principalMatchesTailscaleIdentity(ci, p)
    THEN [ok |-> FALSE, err |-> FALSE, fetched |-> FALSE]
    ELSE principalMatchesPubKey(p, pubKey, fetch)

RECURSIVE anyPrincipalMatchesFrom(_, _, _, _, _, _)
anyPrincipalMatchesFrom(ci, ps, i, pubKey, fetch, fetched) ==
    IF i > Len(ps) THEN [ok |-> FALSE, err |-> FALSE, fetched |-> fetched]
    ELSE IF ps[i].nil THEN anyPrincipalMatchesFrom(ci, ps, i + 1, pubKey, fetch, fetched)
    ELSE LET m == principalMatches(ci, ps[i], pubKey, fetch)
         IN IF m.err THEN [ok |-> FALSE, err |-> TRUE, fetched |-> fetched \/ m.fetched]
            ELSE IF m.ok THEN [ok |-> TRUE, err |-> FALSE, fetched |-> fetched \/ m.fetched]
            ELSE anyPrincipalMatchesFrom(ci, ps, i + 1, pubKey, fetch, fetched \/ m.fetched)

anyPrincipalMatches(ci, ps, pubKey, fetch) ==
    anyPrincipalMatchesFrom(ci, ps, 1, pubKey, fetch, FALSE)

NoMatch == [ok |-> FALSE, action |-> NilAction, localUser |-> Empty, fetched |-> FALSE]

matchRule(ci, r, pubKey, fetch, now) ==
    IF ci.nil \/ r.nil \/ r.Action.nil \/ ruleExpired(r, now) THEN NoMatch
    ELSE LET localUser == IF r.Action.Reject THEN Empty
                          ELSE mapLocalUser(r.SSHUsers, ci.sshUser)
             m == anyPrincipalMatches(ci, r.Principals, pubKey, fetch)
         IN IF ~r.Action.Reject /\ localUser = Empty THEN NoMatch
            ELSE IF m.err \/ ~m.ok THEN [NoMatch EXCEPT !.fetched = m.fetched]
            ELSE [ok |-> TRUE, action |-> r.Action, localUser |-> localUser,
                  fetched |-> m.fetched]

RECURSIVE evalSSHPolicyFrom(_, _, _, _, _, _, _)
evalSSHPolicyFrom(ci, rules, i, pubKey, fetch, now, fetched) ==
    IF i > Len(rules) THEN [NoMatch EXCEPT !.fetched = fetched]
    ELSE LET m == matchRule(ci, rules[i], pubKey, fetch, now)
         IN IF m.ok THEN [m EXCEPT !.fetched = fetched \/ m.fetched]
            ELSE evalSSHPolicyFrom(ci, rules, i + 1, pubKey, fetch, now,
                                   fetched \/ m.fetched)

evalSSHPolicy(ci, pol, pubKey, fetch, now) ==
    evalSSHPolicyFrom(ci, pol.Rules, 1, pubKey, fetch, now, FALSE)

\* ok = FALSE stands for the error evaluatePolicy returns
evaluatePolicy(ci, pol, pubKey, fetch, now) ==
    IF pol.nil THEN NoMatch ELSE evalSSHPolicy(ci, pol, pubKey, fetch, now)

havePubKeyPolicy(ci, pol, now) ==
    /\ ~pol.nil
    /\ \E i \in 1..Len(pol.Rules) :
          LET r == pol.Rules[i]
          IN /\ ~ruleExpired(r, now)
             /\ mapLocalUser(r.SSHUsers, ci.sshUser) # Empty
             /\ \E j \in 1..Len(r.Principals) :
                   /\ Len(r.Principals[j].PubKeys) > 0
                   /\ principalMatchesTailscaleIdentity(ci, r.Principals[j])

\* ----------------------------------------------------------- a connection

NewConn ==
    [info |-> NoInfo, action0 |-> NilAction, currentAction |-> NilAction,
     finalAction |-> NilAction, finalActionErr |-> "", localUser |-> Empty,
     pubKey |-> NoKey, anyPasswordIsOkay |-> FALSE]

errPubKeyRequired == "pubkeyrequired"

\* the local address is not checked
setInfoMutNoDstCheck(c, cx) ==
    IF ~c.info.nil THEN [c |-> c, err |-> ""]
    ELSE IF ~IsTailscaleIP(cx.src) THEN [c |-> c, err |-> "non-Tailscale remote address"]
    ELSE IF cx.src \notin DOMAIN WhoIsTable THEN [c |-> c, err |-> "unknown identity"]
    ELSE [c |-> [c EXCEPT !.info =
                    [nil |-> FALSE, sshUser |-> TrimPasswordSuffix(cx.user),
                     src |-> cx.src, dst |-> cx.dst,
                     node |-> WhoIsTable[cx.src].node,
                     login |-> WhoIsTable[cx.src].login]],
          err |-> ""]

\* cx is the ssh.Context: the user and the two addresses of the connection
setInfo(c, cx) ==
    IF ~c.info.nil THEN [c |-> c, err |-> ""]
    ELSE IF ~IsTailscaleIP(cx.dst) THEN [c |-> c, err |-> "non-Tailscale local address"]
    ELSE IF ~IsTailscaleIP(cx.src) THEN [c |-> c, err |-> "non-Tailscale remote address"]
    ELSE IF cx.src \notin DOMAIN WhoIsTable THEN [c |-> c, err |-> "unknown identity"]
    ELSE [c |-> [c EXCEPT !.info =
                    [nil |-> FALSE, sshUser |-> TrimPasswordSuffix(cx.user),
                     src |-> cx.src, dst |-> cx.dst,
                     node |-> WhoIsTable[cx.src].node,
                     login |-> WhoIsTable[cx.src].login]],
          err |-> ""]

\* doPolicyAuth, lines 369 to 381: user.Lookup and GroupIds
doPolicyAuthLookup(c, localUser, env) ==
    IF localUser \notin LocalAccounts THEN [c |-> c, err |-> "lookup"]
    ELSE IF ~env.gidsOK THEN [c |-> c, err |-> "groupids"]
    ELSE [c |-> [c EXCEPT !.localUser = localUser], err |-> ""]

\* every matched action becomes final, a HoldAndDelegate too
doPolicyAuthMatchedMutFinalOnHold(c, a, localUser, env) ==
    IF a.Message # "" /\ ~env.bannerOK THEN [c |-> c, err |-> "SendBanner"]
    ELSE IF a.Accept \/ a.HoldAndDelegate # "" THEN
        doPolicyAuthLookup([c EXCEPT !.finalAction = a], localUser, env)
    ELSE IF a.Reject THEN [c |-> [c EXCEPT !.finalAction = a], err |-> "denied"]
    ELSE [c |-> c, err |-> "denied"]

\* doPolicyAuth, lines 360 to 388: the policy matched with action a, which
\* is already c.action0 and c.currentAction
doPolicyAuthMatched(c, a, localUser, env) ==
    IF a.Message # "" /\ ~env.bannerOK THEN [c |-> c, err |-> "SendBanner"]
    ELSE IF a.Accept \/ a.HoldAndDelegate # "" THEN
        doPolicyAuthLookup(IF a.Accept THEN [c EXCEPT !.finalAction = a] ELSE c,
                           localUser, env)
    ELSE IF a.Reject THEN [c |-> [c EXCEPT !.finalAction = a], err |-> "denied"]
    ELSE [c |-> c, err |-> "denied"]

\* the sentinel is returned to a caller that gave a key too
doPolicyAuthEvaluatedMutSentinelWithKey(c, ev, pubKey, env) ==
    IF ~ev.ok THEN
        [c |-> c,
         err |-> IF havePubKeyPolicy(c.info, env.pol, env.now)
                 THEN errPubKeyRequired ELSE "denied"]
    ELSE doPolicyAuthMatched(
             [c EXCEPT !.action0 = ev.action, !.currentAction = ev.action,
                       !.pubKey = pubKey],
             ev.action, ev.localUser, env)

\* doPolicyAuth, lines 351 to 359: ev is what evaluatePolicy returned
doPolicyAuthEvaluated(c, ev, pubKey, env) ==
    IF ~ev.ok THEN
        [c |-> c,
         err |-> IF pubKey.nil /\ havePubKeyPolicy(c.info, env.pol, env.now)
                 THEN errPubKeyRequired ELSE "denied"]
    ELSE doPolicyAuthMatched(
             [c EXCEPT !.action0 = ev.action, !.currentAction = ev.action,
                       !.pubKey = pubKey],
             ev.action, ev.localUser, env)

\* doPolicyAuth, lines 346 to 350: si is what setInfo returned
doPolicyAuthInfo(c, si, pubKey, env) ==
    IF si.err # "" THEN [c |-> c, err |-> "denied"]
    ELSE doPolicyAuthEvaluated(
             si.c, evaluatePolicy(si.c.info, env.pol, pubKey, env.fetch, env.now),
             pubKey, env)

\* env: pol (what sshPolicy returns), fetch (what fetchPublicKeysURL returns),
\* now, bannerOK (SendAuthBanner succeeds), gidsOK (GroupIds succeeds)
doPolicyAuth(c, cx, pubKey, env) == doPolicyAuthInfo(c, setInfo(c, cx), pubKey, env)

\* lines 710 to 752: nothing is final yet
resolveNextActionStep(c, answer) ==
    LET action == c.currentAction
         IN IF action.Accept \/ action.Reject THEN
                [c |-> [c EXCEPT !.currentAction = action, !.finalAction = action],
                 action |-> action, err |-> "", fetched |-> FALSE]
            ELSE IF action.HoldAndDelegate = "" THEN
                [c |-> [c EXCEPT !.finalActionErr = "malformed"],
                 action |-> NilAction, err |-> "malformed", fetched |-> FALSE]
            ELSE IF answer.err THEN
                [c |-> [c EXCEPT !.finalActionErr = "fetching SSHAction"],
                 action |-> NilAction, err |-> "fetching SSHAction", fetched |-> TRUE]
            ELSE [c |-> [c EXCEPT !.currentAction = answer.action,
                                  !.finalAction =
                                      IF answer.action.Accept \/ answer.action.Reject
                                      THEN answer.action ELSE @],
                  action |-> answer.action, err |-> "", fetched |-> TRUE]

\* the chain is walked again whatever is final
resolveNextActionMutNoFinalCheck(c, answer) == resolveNextActionStep(c, answer)

\* answer is what fetchSSHAction returns if it is called; fetched tells whether
\* it was.  The deferred function's assignments are part of the result.
resolveNextAction(c, answer) ==
    IF ~c.finalAction.nil \/ c.finalActionErr # "" THEN
        [c |-> c, action |-> c.finalAction, err |-> c.finalActionErr, fetched |-> FALSE]
    ELSE resolveNextActionStep(c, answer)

\* The loop of isAuthorized: `action` is its local variable, i the index of
\* the next answer of the delegate, n the number of iterations made.
\* err = "blocked": the call has not returned, because the loop needs an
\* answer the delegate has not given or because it does not end.
RECURSIVE isAuthorizedLoop(_, _, _, _, _, _)
RECURSIVE isAuthorizedResolved(_, _, _, _, _)

\* ctx.SendAuthBanner(msg) was called and returned nil before the rest of the
\* loop, whose result is z
BannerSent(msg, z) == IF msg = "" THEN z ELSE [z EXCEPT !.banners = <<msg>> \o @]

\* the action that resolveNextAction returned is examined without its message
\* being sent
isAuthorizedResolvedMutNoBanner(r, answers, i, n, bannerOK) ==
    IF r.err # "" THEN
        [c |-> r.c, err |-> r.err, fetches |-> IF r.fetched THEN i ELSE i - 1,
         banners |-> <<>>]
    ELSE isAuthorizedLoop(r.c, r.action, answers, IF r.fetched THEN i + 1 ELSE i,
                          n + 1, bannerOK)

\* lines 254 to 261: r is what resolveNextAction returned
isAuthorizedResolved(r, answers, i, n, bannerOK) ==
    IF r.err # "" THEN
        [c |-> r.c, err |-> r.err, fetches |-> IF r.fetched THEN i ELSE i - 1,
         banners |-> <<>>]
    ELSE IF r.action.Message # "" /\ ~bannerOK THEN
        [c |-> r.c, err |-> "SendBanner", fetches |-> IF r.fetched THEN i ELSE i - 1,
         banners |-> <<>>]
    ELSE BannerSent(r.action.Message,
                    isAuthorizedLoop(r.c, r.action, answers, IF r.fetched THEN i + 1 ELSE i,
                                     n + 1, bannerOK))

isAuthorizedLoop(c, action, answers, i, n, bannerOK) ==
    IF action.Accept THEN [c |-> c, err |-> "", fetches |-> i - 1, banners |-> <<>>]
    ELSE IF action.Reject \/ action.HoldAndDelegate = "" THEN
        [c |-> c, err |-> "denied", fetches |-> i - 1, banners |-> <<>>]
    ELSE IF \/ c.finalAction.nil /\ c.finalActionErr = "" /\ i > Len(answers)
            \/ n > MaxChain + 1
    THEN [c |-> c, err |-> "blocked", fetches |-> i - 1, banners |-> <<>>]
    ELSE isAuthorizedResolved(
             resolveNextAction(c, IF i <= Len(answers) THEN answers[i]
                                  ELSE [err |-> TRUE, action |-> NilAction]),
             answers, i, n, bannerOK)

isAuthorized(c, answers, bannerOK) ==
    isAuthorizedLoop(c, c.currentAction, answers, 1, 1, bannerOK)

\* ------------------------------------------------------------------ state

VARIABLES
    \* per connection: the fields of conn, the ssh.Context of the connection,
    \* and what the SSH library keeps about its authentication
    conn, ctx, authed, tries, prevErr,
    \* history: isAuthorized has returned nil on the connection; the last
    \* callback of the handshake, what it was given and what it returned; the
    \* action for which isAuthorized last returned nil; what the last
    \* mayForwardLocalPortTo returned
    everAuthorized, lastCall, authorizer, forward,
    \* the environment: the SSH policy of the netmap, the count of its changes,
    \* the clock
    policy, polChanges, now,
    \* the server: position of each HandleSSHConn call, srv.activeConns,
    \* srv.shutdownCalled, the holders of srv.mu and of each conn.mu,
    \* conn.sessions, srv.sessionWaitGroup, the position of Shutdown, of
    \* OnPolicyChange and of each checkStillValid goroutine, closed connections
    connPc, activeConns, shutdownCalled, srvMu, cMu, sessions, wg,
    shutPc, opcPc, chkPc, closed,
    \* per session: position of run, its connection, its context, its child
    \* process, the killProcessOnContextDone goroutine, exitOnce, the calls of
    \* Process.Kill, the exit status sent to the client
    \* and the session-duration timer
    ssPc, ssConn, ssCtx, proc, killer, exitOnce, kills, exitCode, timer,
    \* the key cache: srv.fetchPublicKeysCache, the document the remote server
    \* holds for the key-list URL, and each call of fetchPublicKeysURL in
    \* flight (its position, its locals, what it returned)
    fetchPublicKeysCache, remote, fetcher,
    \* per session, what run did before launchProcess, the three copy
    \* goroutines, the counter openOutputStreams, the calls of CloseWrite,
    \* rec.out, the lines of the recording file, the chunks written to the
    \* child's stdin and to the client, and what killProcessOnContextDone did
    setup, pumps, openOutputStreams, closeWrites, rec, cast, toChild, toClient, termLog,
    \* a call of evaluatePolicy, of matchRule and of mapLocalUser: the
    \* arguments and what was returned
    evalCall, ruleCall, mapCall,
    \* per session, the recording: the holder of rec.mu, the calls of
    \* writeCastLine and of Close in flight, and the calls of rec.out.Close
    recMu, recPc, outCloses,
    \* a call of fetchSSHAction, the context it was given, and whether the
    \* delegate has come to answer 200 with an action that decodes
    fsa, fsaCtx, delegate,
    \* per session, the agent forwarding: whether the client requested it, the
    \* listener NewAgentListener made, the calls of its Close, ss.agentListener
    agent

ioVars == <<setup, pumps, openOutputStreams, closeWrites, rec, cast, toChild, toClient, termLog>>
callVars == <<evalCall, ruleCall, mapCall>>
recVars == <<recMu, recPc, outCloses>>
fsaVars == <<fsa, fsaCtx, delegate>>
objVars == <<recVars, fsaVars, agent>>
cacheVars == <<fetchPublicKeysCache, remote, fetcher>>
connVars == <<conn, ctx, authed, tries, prevErr, everAuthorized, lastCall, authorizer, forward>>
envVars == <<policy, polChanges, now, cacheVars>>
srvVars == <<connPc, activeConns, shutdownCalled, srvMu, cMu, sessions, wg,
             shutPc, opcPc, chkPc, closed>>
sessVars == <<ssPc, ssConn, ssCtx, proc, killer, exitOnce, kills, exitCode, timer>>
vars == <<connVars, envVars, srvVars, sessVars, ioVars, callVars, objVars>>

NoThread == <<"none", 0>>
ConnThread(c) == <<"conn", c>>
SessThread(s) == <<"sess", s>>
ChkThread(c) == <<"chk", c>>
ShutdownThread == <<"shutdown", 0>>
PolicyThread == <<"policy", 0>>

OpenCtx == [done |-> FALSE, cause |-> ""]

\* run has not reached its set-up
NoSetup ==
    [pty |-> FALSE, recording |-> FALSE, euidErr |-> FALSE, agentErr |-> FALSE,
     recordingErr |-> FALSE, launchErr |-> FALSE, failed |-> ""]

\* no agent forwarding was asked of the session
NoAgent == [requested |-> FALSE, created |-> FALSE, closes |-> 0, set |-> FALSE]

\* a copy goroutine: where it is and the number of the chunk it holds
NoPump == [pc |-> "none", n |-> 0]
NoPumps == [stdin |-> NoPump, stdout |-> NoPump, stderr |-> NoPump]

\* isStillValid dereferenced a nil c.localUser in a checkStillValid goroutine:
\* the panic ends the process, nothing runs any more
Crashed == \E c \in Conns : chkPc[c] = "panic"

\* a caller of the recording: the writer of the stdin copy, the writer of the
\* stdout copy, a caller of Close
RecCallers == {"i", "o", "close"}
NoRecCaller == "none"

\* a call of writeCastLine or of Close: where it is, the number of the line,
\* the error it returned
IdleRecCall == [pc |-> "idle", n |-> 0, err |-> ""]

\* no response of the delegate
NoResponse == [err |-> FALSE, status |-> 0, decodes |-> FALSE, action |-> NilAction]

\* a call of fetchSSHAction: where it is, the responses it has had, the last
\* of them, and what it returned
IdleFetch == [pc |-> "idle", n |-> 0, last |-> NoResponse, action |-> NilAction, err |-> ""]

\* no call made
NoEvalCall == [st |-> "none"]
NoRuleCall == [st |-> "none"]
NoMapCall == [st |-> "none"]

\* ------------------------------------------------------------ the policies

RuleExpiring ==
    MkRule(AnyUser, <<MkPrincipal(TRUE, "", "", "", <<>>)>>, ActAcceptFwd, 1)

PolAcceptLogin == MkPolicy(<<RuleAcceptLogin>>)
PolAcceptAgent == MkPolicy(<<RuleAcceptAgent>>)
PolReject == MkPolicy(<<RuleRejectAny>>)
PolKeys == MkPolicy(<<RuleKey2Reject, RuleKey1Accept>>)
PolKeyHold == MkPolicy(<<RuleKey2Hold, RuleKey1Accept>>)
PolHold == MkPolicy(<<RuleHoldAny>>)
PolKeyThenLogin == MkPolicy(<<RuleKey2Reject, RuleAcceptLogin>>)
PolURL == MkPolicy(<<RuleURLAccept, RuleMalformed>>)
PolExpiring == MkPolicy(<<RuleExpiring, RuleHoldAny>>)

\* rules that ask for a key: one for the user alice alone, one that expires
RuleKey1AliceOnly ==
    MkRule(AliceOnly, <<MkPrincipal(TRUE, "", "", "", <<Line1>>)>>, ActAccept, 0)
RuleKey1Expiring ==
    MkRule(AnyUser, <<MkPrincipal(FALSE, "", "", "alice@ex.com", <<Line1>>)>>, ActAccept, 1)
PolKeyNarrow == MkPolicy(<<RuleKey1AliceOnly, RuleKey1Expiring>>)
\* a key gives more than the login alone
PolKeyFwdThenLogin == MkPolicy(<<RuleKey1Accept, RuleAcceptLogin>>)

Policies ==
    {NoPolicy, PolAcceptLogin, PolReject, PolKeys, PolKeyHold, PolHold,
     PolKeyThenLogin, PolURL, PolExpiring, PolKeyNarrow, PolKeyFwdThenLogin}

\* what fetchPublicKeysURL can return
KeyFetches ==
    {[err |-> TRUE, lines |-> <<>>], [err |-> FALSE, lines |-> <<>>],
     [err |-> FALSE, lines |-> <<Line1>>]}

AnswerSeqs == SeqsUpTo(FetchAnswers, MaxChain)

Envs ==
    {[pol |-> policy, fetch |-> f, now |-> now, bannerOK |-> b, gidsOK |-> g] :
        f \in KeyFetches, b \in BOOLEAN, g \in BOOLEAN}

\* the environments where banners are sent and the account's groups are found
QuietEnvs == {env \in Envs : env.bannerOK /\ env.gidsOK /\ ~env.fetch.err}

\* -------------------------------------------------- the handshake callbacks

\* any_password_ok is set for a +password user whatever isAuthorized returned
NoClientAuthAuthorizedMutSetsOnDenied(z, cx) ==
    IF HasPasswordSuffix(cx.user) THEN
        [c |-> [z.c EXCEPT !.anyPasswordIsOkay = TRUE],
         err |-> IF z.err # "" THEN z.err ELSE "any password please",
         authorized |-> z.err = "", fetches |-> z.fetches, banners |-> z.banners]
    ELSE [c |-> z.c, err |-> z.err, authorized |-> z.err = "", fetches |-> z.fetches,
          banners |-> z.banners]

\* NoClientAuthCallback, lines 286 to 297: z is what isAuthorized returned
NoClientAuthAuthorized(z, cx) ==
    IF z.err # "" THEN
        [c |-> z.c, err |-> z.err, authorized |-> FALSE, fetches |-> z.fetches,
         banners |-> z.banners]
    ELSE IF HasPasswordSuffix(cx.user) THEN
        [c |-> [z.c EXCEPT !.anyPasswordIsOkay = TRUE], err |-> "any password please",
         authorized |-> TRUE, fetches |-> z.fetches, banners |-> z.banners]
    ELSE [c |-> z.c, err |-> "", authorized |-> TRUE, fetches |-> z.fetches,
          banners |-> z.banners]

\* NoClientAuthCallback (insecureSkipTailscaleAuth off) after its doPolicyAuth
\* returned d
NoClientAuthResult(d, cx, bannerOK, answers) ==
    IF d.err # "" THEN
        [c |-> d.c, err |-> d.err, authorized |-> FALSE, fetches |-> 0, banners |-> <<>>]
    ELSE NoClientAuthAuthorized(isAuthorized(d.c, answers, bannerOK), cx)

\* PublicKeyHandler, lines 333 to 337: z is what isAuthorized returned
PublicKeyAuthorized(z) ==
    [c |-> z.c, err |-> z.err, authorized |-> z.err = "", fetches |-> z.fetches,
     banners |-> z.banners]

\* PublicKeyHandler after its doPolicyAuth returned d
PublicKeyResult(d, bannerOK, answers) ==
    IF d.err # "" THEN
        [c |-> d.c, err |-> d.err, authorized |-> FALSE, fetches |-> 0, banners |-> <<>>]
    ELSE PublicKeyAuthorized(isAuthorized(d.c, answers, bannerOK))

\* publickey is offered after every failure
nextAuthMethodCallbackMutAlwaysPublicKey(c, prevErrors) ==
    (IF c.anyPasswordIsOkay THEN <<"password">> ELSE <<"publickey">>) \o <<"tailscale">>

nextAuthMethodCallback(c, prevErrors) ==
    (IF c.anyPasswordIsOkay THEN <<"password">>
     ELSE IF Len(prevErrors) > 0 /\ prevErrors[Len(prevErrors)] = errPubKeyRequired
          THEN <<"publickey">>
     ELSE <<>>) \o <<"tailscale">>

\* the errors of the failed attempts that the library hands to
\* NextAuthMethodCallback: the model keeps the last one
PrevErrors(c) == IF prevErr[c] = "" THEN <<>> ELSE <<prevErr[c]>>

\* the answers the delegate may be asked for after doPolicyAuth returned d:
\* none unless isAuthorized starts on a HoldAndDelegate with nothing final
AnswersFor(d) ==
    IF /\ d.err = ""
       /\ ~d.c.currentAction.Accept /\ ~d.c.currentAction.Reject
       /\ d.c.currentAction.HoldAndDelegate # ""
       /\ d.c.finalAction.nil /\ d.c.finalActionErr = ""
    THEN AnswerSeqs \ {<<>>} ELSE {<<>>}

fakePasswordHandlerMutAcceptsAll(c) == TRUE

fakePasswordHandler(c) == c.anyPasswordIsOkay

InHandshake(c) == connPc[c] = "handling" /\ ~authed[c] /\ tries[c] < MaxAuthTries

\* the library's bookkeeping after a callback returned err for a request that,
\* when the callback accepts, completes the authentication iff `completes`;
\* it keeps the errors of the failed attempts until the authentication is done
AuthOutcome(c, res, completes) ==
    /\ res.err # "blocked"
    /\ conn' = [conn EXCEPT ![c] = res.c]
    /\ prevErr' = [prevErr EXCEPT ![c] =
                       IF res.err # "" THEN res.err ELSE IF completes THEN "" ELSE @]
    /\ everAuthorized' = [everAuthorized EXCEPT ![c] = @ \/ res.authorized]
    /\ authed' = [authed EXCEPT ![c] = res.err = "" /\ completes]
    /\ tries' = [tries EXCEPT ![c] = IF res.err = "" /\ completes THEN @ ELSE @ + 1]
    /\ authorizer' = [authorizer EXCEPT ![c] = IF res.authorized THEN res.c.finalAction ELSE @]
    /\ UNCHANGED <<ctx, forward>>
    /\ UNCHANGED <<callVars, objVars, ioVars>>

\* The record of a callback: cb its method, key the key offered, now and
\* bannerOK from its environment, dErr what doPolicyAuth returned and c0 the
\* conn it left, answers what the delegate gave to isAuthorized, authorized
\* whether isAuthorized returned nil, banners what isAuthorized sent, err
\* what the callback returned, and next what nextAuthMethodCallback returned
\* for the failure message (empty when the library sent none).
NoCall ==
    [cb |-> "", key |-> NoKey, now |-> 0, bannerOK |-> TRUE, dErr |-> "", c0 |-> NewConn,
     answers |-> <<>>, authorized |-> FALSE, banners |-> <<>>, err |-> "", next |-> <<>>]

CallRecord(c, cb, key, env, d, answers, res) ==
    [cb |-> cb, key |-> key, now |-> env.now, bannerOK |-> env.bannerOK, dErr |-> d.err,
     c0 |-> d.c, answers |-> answers, authorized |-> res.authorized,
     banners |-> res.banners, err |-> res.err,
     next |-> IF res.err = "" THEN <<>>
              ELSE nextAuthMethodCallback(res.c, Append(PrevErrors(c), res.err))]

\* the callback returned res after the delegate gave exactly `answers`
CallbackReturns(c, cb, key, env, d, answers, res, completes) ==
    /\ res.fetches = Len(answers)
    /\ AuthOutcome(c, res, completes)
    /\ lastCall' = [lastCall EXCEPT ![c] = CallRecord(c, cb, key, env, d, answers, res)]
    /\ UNCHANGED <<callVars, objVars, ioVars>>

NoClientAuthAfterPolicy(c, d, env) ==
    \E answers \in AnswersFor(d) :
        CallbackReturns(c, "none", NoKey, env, d, answers,
                        NoClientAuthResult(d, ctx[c], env.bannerOK, answers), TRUE)

\* envs: what the environment may do during the call
NoClientAuthCallback(c, envs) ==
    /\ ~Crashed
    /\ InHandshake(c)
    /\ \E env \in envs :
          NoClientAuthAfterPolicy(c, doPolicyAuth(conn[c], ctx[c], NoKey, env), env)
    /\ UNCHANGED <<envVars, srvVars, sessVars>>

\* whether doPolicyAuth calls fetchPublicKeysURL
PolicyAuthFetches(c, cx, pubKey, env) ==
    evaluatePolicy(setInfo(c, cx).c.info, env.pol, pubKey, env.fetch, env.now).fetched

PublicKeyAfterPolicy(c, key, d, env) ==
    \E answers \in AnswersFor(d), signs \in BOOLEAN :
        CallbackReturns(c, "publickey", key, env, d, answers,
                        PublicKeyResult(d, env.bannerOK, answers), signs)

\* signs: the client goes on to prove it holds the key the server accepted
\* and fetchPublicKeysURL, when the evaluation reaches it, locks srv.mu
PublicKeyHandler(c, envs) ==
    /\ ~Crashed
    /\ InHandshake(c)
    /\ \E env \in envs, key \in ClientKeys :
          /\ PolicyAuthFetches(conn[c], ctx[c], key, env) => srvMu = NoThread
          /\ PublicKeyAfterPolicy(c, key, doPolicyAuth(conn[c], ctx[c], key, env), env)
    /\ UNCHANGED <<envVars, srvVars, sessVars>>

\* the library's password callback returned err
PasswordReturns(c, err) ==
    /\ AuthOutcome(c, [c |-> conn[c], err |-> err, authorized |-> FALSE, fetches |-> 0],
                   TRUE)
    /\ lastCall' = [lastCall EXCEPT ![c] =
                       [NoCall EXCEPT !.cb = "password", !.now = now, !.c0 = conn[c],
                                      !.err = err,
                                      !.next = IF err = "" THEN <<>>
                                               ELSE nextAuthMethodCallback(
                                                        conn[c], Append(PrevErrors(c), err))]]
    /\ UNCHANGED <<callVars, objVars, ioVars>>

PasswordCallback(c) ==
    /\ ~Crashed
    /\ InHandshake(c)
    /\ PasswordReturns(c, IF fakePasswordHandler(conn[c]) THEN "" ELSE "password rejected")
    /\ UNCHANGED <<envVars, srvVars, sessVars>>

\* lines 456 to 462
mayForwardLocalPortTo(c) == ~c.finalAction.nil /\ c.finalAction.AllowLocalPortForwarding

\* the library asks LocalPortForwardingCallback for a direct-tcpip channel of
\* an authenticated connection
LocalPortForwardingCallback(c) ==
    /\ ~Crashed
    /\ connPc[c] = "handling" /\ authed[c] /\ ~closed[c]
    /\ forward' = [forward EXCEPT ![c] =
                       IF mayForwardLocalPortTo(conn[c]) THEN "allowed" ELSE "denied"]
    /\ UNCHANGED <<conn, ctx, authed, tries, prevErr, everAuthorized, lastCall, authorizer>>
    /\ UNCHANGED <<envVars, srvVars, sessVars, ioVars, callVars, objVars>>

\* the clock advances
Tick ==
    /\ ~Crashed
    /\ now < MaxNow
    /\ now' = now + 1
    /\ UNCHANGED <<policy, polChanges, cacheVars, connVars, srvVars, sessVars>>
    /\ UNCHANGED <<callVars, objVars, ioVars>>

\* handleSessionPostSSHAuth: the library calls it for a session channel of an
\* authenticated connection; with a supported subsystem it makes the
\* sshSession and calls run
handleSessionPostSSHAuth(c, s) ==
    /\ ~Crashed
    /\ connPc[c] = "handling" /\ authed[c] /\ ~closed[c]
    /\ ssPc[s] = "none"
    /\ \E subsystem \in {"", "sftp", "other"} :
          IF subsystem \in {"sftp", ""}
          THEN /\ ssPc' = [ssPc EXCEPT ![s] = "run"]
               /\ UNCHANGED exitCode
          ELSE /\ ssPc' = [ssPc EXCEPT ![s] = "ended"]
               /\ exitCode' = [exitCode EXCEPT ![s] = 1]
    /\ ssConn' = [ssConn EXCEPT ![s] = c]
    /\ UNCHANGED <<ssCtx, proc, killer, exitOnce, kills, timer>>
    /\ UNCHANGED <<connVars, envVars, srvVars>>
    /\ UNCHANGED <<callVars, objVars, ioVars>>

\* ------------------------------------------------------ session contexts

\* sshContext.CloseWithError: the first cause wins
CloseWithError(cx, cause) == IF cx.done THEN cx ELSE [done |-> TRUE, cause |-> cause]

AccessRevoked == "Access revoked."
SessionTimeout == "Session timeout elapsed."
errSessionDone == "session is done"

\* SSHTerminationMessage of a cause: the text of a userVisibleError, nothing
\* for another error
SSHTerminationMessage(cause) == IF cause \in {AccessRevoked, SessionTimeout} THEN cause ELSE ""

\* the sessions whose context has the connection's context as parent
LiveSessions(c) == {s \in Sess : ssConn[s] = c /\ ssPc[s] \notin {"none", "ended", "refusedEnd"}}

\* the connection's context is cancelled: so is every context derived from it
CancelSessionsOf(cs) ==
    [s \in Sess |->
        IF \E c \in cs : s \in LiveSessions(c) THEN CloseWithError(ssCtx[s], "context canceled")
        ELSE ssCtx[s]]

\* -------------------------------------------------------------- the server

\* newConn: the check of the fence, under srv.mu, then GetSSH_HostKeys
newConn(c) ==
    /\ ~Crashed
    /\ connPc[c] = "idle"
    /\ srvMu = NoThread
    /\ \E hostKeysOK \in BOOLEAN :
          connPc' = [connPc EXCEPT ![c] =
                        IF shutdownCalled THEN "denied"
                        ELSE IF hostKeysOK THEN "created" ELSE "failed"]
    /\ UNCHANGED <<activeConns, shutdownCalled, srvMu, cMu, sessions, wg, shutPc, opcPc,
                   chkPc, closed>>
    /\ UNCHANGED <<connVars, envVars, sessVars>>
    /\ UNCHANGED <<callVars, objVars, ioVars>>

\* trackActiveConn(c, true), then c.HandleConn starts
trackActiveConnAdd(c) ==
    /\ ~Crashed
    /\ connPc[c] = "created"
    /\ srvMu = NoThread
    /\ activeConns' = activeConns \cup {c}
    /\ connPc' = [connPc EXCEPT ![c] = "handling"]
    /\ UNCHANGED <<shutdownCalled, srvMu, cMu, sessions, wg, shutPc, opcPc, chkPc, closed>>
    /\ UNCHANGED <<connVars, envVars, sessVars>>
    /\ UNCHANGED <<callVars, objVars, ioVars>>

\* c.HandleConn returns: the client went away, or the connection was closed
HandleConnReturns(c) ==
    /\ ~Crashed
    /\ connPc[c] = "handling"
    /\ connPc' = [connPc EXCEPT ![c] = "untrack"]
    /\ closed' = [closed EXCEPT ![c] = TRUE]
    /\ ssCtx' = CancelSessionsOf({c})
    /\ UNCHANGED <<activeConns, shutdownCalled, srvMu, cMu, sessions, wg, shutPc, opcPc, chkPc>>
    /\ UNCHANGED <<ssPc, ssConn, proc, killer, exitOnce, kills, exitCode, timer>>
    /\ UNCHANGED <<connVars, envVars>>
    /\ UNCHANGED <<callVars, objVars, ioVars>>

\* the deferred trackActiveConn(c, false)
trackActiveConnRemove(c) ==
    /\ ~Crashed
    /\ connPc[c] = "untrack"
    /\ srvMu = NoThread
    /\ activeConns' = activeConns \ {c}
    /\ connPc' = [connPc EXCEPT ![c] = "returned"]
    /\ UNCHANGED <<shutdownCalled, srvMu, cMu, sessions, wg, shutPc, opcPc, chkPc, closed>>
    /\ UNCHANGED <<connVars, envVars, sessVars>>
    /\ UNCHANGED <<callVars, objVars, ioVars>>

\* Shutdown: srv.mu.Lock()
ShutdownLock ==
    /\ ~Crashed
    /\ shutPc = "idle"
    /\ srvMu = NoThread
    /\ srvMu' = ShutdownThread
    /\ shutPc' = "locked"
    /\ UNCHANGED <<connPc, activeConns, shutdownCalled, cMu, sessions, wg, opcPc, chkPc, closed>>
    /\ UNCHANGED <<connVars, envVars, sessVars>>
    /\ UNCHANGED <<callVars, objVars, ioVars>>

\* Shutdown: the fence, c.Close() for every active connection, srv.mu.Unlock()
ShutdownFence ==
    /\ ~Crashed
    /\ shutPc = "locked"
    /\ shutdownCalled' = TRUE
    /\ closed' = [c \in Conns |-> closed[c] \/ c \in activeConns]
    /\ ssCtx' = CancelSessionsOf(activeConns)
    /\ srvMu' = NoThread
    /\ shutPc' = "waiting"
    /\ UNCHANGED <<connPc, activeConns, cMu, sessions, wg, opcPc, chkPc>>
    /\ UNCHANGED <<ssPc, ssConn, proc, killer, exitOnce, kills, exitCode, timer>>
    /\ UNCHANGED <<connVars, envVars>>
    /\ UNCHANGED <<callVars, objVars, ioVars>>

\* Shutdown: srv.sessionWaitGroup.Wait() returns
ShutdownReturns ==
    /\ ~Crashed
    /\ shutPc = "waiting"
    /\ wg = 0
    /\ shutPc' = "returned"
    /\ UNCHANGED <<connPc, activeConns, shutdownCalled, srvMu, cMu, sessions, wg, opcPc,
                   chkPc, closed>>
    /\ UNCHANGED <<connVars, envVars, sessVars>>
    /\ UNCHANGED <<callVars, objVars, ioVars>>

\* ----------------------------------------------------------- policy change

\* the control plane sends a netmap with another SSH policy; the backend then
\* calls OnPolicyChange
SetPolicy(pols) ==
    /\ ~Crashed
    /\ opcPc = "idle"
    /\ polChanges < MaxPolicyChanges
    /\ \E p \in pols \ {policy} : policy' = p
    /\ polChanges' = polChanges + 1
    /\ opcPc' = "pending"
    /\ UNCHANGED <<now, connPc, activeConns, shutdownCalled, srvMu, cMu, sessions, wg, shutPc,
                   chkPc, closed>>
    /\ UNCHANGED <<cacheVars, connVars, sessVars>>
    /\ UNCHANGED <<callVars, objVars, ioVars>>

\* OnPolicyChange, under srv.mu: a checkStillValid goroutine for every active
\* connection whose info is set.  The model keeps at most one such goroutine
\* per connection at a time: a call happens when none is in flight.
OnPolicyChange ==
    /\ ~Crashed
    /\ opcPc = "pending"
    /\ srvMu = NoThread
    /\ \A c \in activeConns : ~conn[c].info.nil => chkPc[c] = "idle"
    /\ chkPc' = [c \in Conns |->
                    IF c \in activeConns /\ ~conn[c].info.nil THEN "eval" ELSE chkPc[c]]
    /\ opcPc' = "idle"
    /\ UNCHANGED <<connPc, activeConns, shutdownCalled, srvMu, cMu, sessions, wg, shutPc, closed>>
    /\ UNCHANGED <<connVars, envVars, sessVars>>
    /\ UNCHANGED <<callVars, objVars, ioVars>>

\* the local user the policy maps to is not compared
isStillValidEvaluatedMutIgnoresUser(c, ev) ==
    ev.ok /\ (ev.action.Accept \/ ev.action.HoldAndDelegate # "")

\* isStillValid, lines 828 to 834: ev is what evaluatePolicy returned
isStillValidEvaluated(c, ev) ==
    IF ~ev.ok THEN FALSE
    ELSE IF ~ev.action.Accept /\ ev.action.HoldAndDelegate = "" THEN FALSE
    ELSE c.localUser = ev.localUser

isStillValid(c, pol, fetch, nw) ==
    isStillValidEvaluated(c, evaluatePolicy(c.info, pol, c.pubKey, fetch, nw))

\* isStillValid, line 834: c.localUser.Username is read once the policy has
\* answered Accept or HoldAndDelegate; c.localUser is nil until doPolicyAuth
\* has set it (line 373), and reading the field of a nil *user.User panics
isStillValidPanics(c, pol, fetch, nw) ==
    LET ev == evaluatePolicy(c.info, pol, c.pubKey, fetch, nw)
    IN /\ ev.ok
       /\ ev.action.Accept \/ ev.action.HoldAndDelegate # ""
       /\ c.localUser = Empty

\* checkStillValid, lines 839 to 842: where the goroutine goes after
\* isStillValid
checkStillValidDecides(c, pol, fetch, nw) ==
    IF isStillValidPanics(c, pol, fetch, nw) THEN "panic"
    ELSE IF isStillValid(c, pol, fetch, nw) THEN "idle"
    ELSE "revoke"

\* whether evaluating the policy for c calls fetchPublicKeysURL, which takes
\* srv.mu (in fetchPublicKeysURLCached, and to store what it fetched)
EvaluationFetches(c, pol, nw) ==
    \E f \in KeyFetches : evaluatePolicy(c.info, pol, c.pubKey, f, nw).fetched

\* checkStillValid: isStillValid when the evaluation fetches no key list
checkStillValidEval(c) ==
    /\ ~Crashed
    /\ chkPc[c] = "eval"
    /\ ~EvaluationFetches(conn[c], policy, now)
    /\ \E f \in KeyFetches :
          chkPc' = [chkPc EXCEPT ![c] =
                       checkStillValidDecides(conn[c], policy, f, now)]
    /\ UNCHANGED <<connPc, activeConns, shutdownCalled, srvMu, cMu, sessions, wg, shutPc,
                   opcPc, closed>>
    /\ UNCHANGED <<connVars, envVars, sessVars>>
    /\ UNCHANGED <<callVars, objVars, ioVars>>

\* checkStillValid takes c.mu before it calls isStillValid
checkStillValidCacheLockMutUnderConnLock(c) ==
    /\ ~Crashed
    /\ chkPc[c] = "eval"
    /\ EvaluationFetches(conn[c], policy, now)
    /\ cMu[c] = NoThread
    /\ srvMu = NoThread
    /\ cMu' = [cMu EXCEPT ![c] = ChkThread(c)]
    /\ srvMu' = ChkThread(c)
    /\ chkPc' = [chkPc EXCEPT ![c] = "cache"]
    /\ UNCHANGED <<connPc, activeConns, shutdownCalled, sessions, wg, shutPc, opcPc, closed>>
    /\ UNCHANGED <<connVars, envVars, sessVars>>
    /\ UNCHANGED <<callVars, objVars, ioVars>>

\* checkStillValid: isStillValid reaches fetchPublicKeysURL, which locks srv.mu
checkStillValidCacheLock(c) ==
    /\ ~Crashed
    /\ chkPc[c] = "eval"
    /\ EvaluationFetches(conn[c], policy, now)
    /\ srvMu = NoThread
    /\ srvMu' = ChkThread(c)
    /\ chkPc' = [chkPc EXCEPT ![c] = "cache"]
    /\ UNCHANGED <<connPc, activeConns, shutdownCalled, cMu, sessions, wg, shutPc, opcPc, closed>>
    /\ UNCHANGED <<connVars, envVars, sessVars>>
    /\ UNCHANGED <<callVars, objVars, ioVars>>

\* checkStillValid: srv.mu unlocked, the key list returned, isStillValid returns
checkStillValidCacheUnlock(c) ==
    /\ ~Crashed
    /\ chkPc[c] = "cache"
    /\ srvMu' = NoThread
    /\ \E f \in KeyFetches :
          chkPc' = [chkPc EXCEPT ![c] =
                       checkStillValidDecides(conn[c], policy, f, now)]
    /\ UNCHANGED <<connPc, activeConns, shutdownCalled, cMu, sessions, wg, shutPc, opcPc, closed>>
    /\ UNCHANGED <<connVars, envVars, sessVars>>
    /\ UNCHANGED <<callVars, objVars, ioVars>>

\* checkStillValid: c.mu.Lock()
checkStillValidLock(c) ==
    /\ ~Crashed
    /\ chkPc[c] = "revoke"
    /\ cMu[c] = NoThread
    /\ cMu' = [cMu EXCEPT ![c] = ChkThread(c)]
    /\ chkPc' = [chkPc EXCEPT ![c] = "closing"]
    /\ UNCHANGED <<connPc, activeConns, shutdownCalled, srvMu, sessions, wg, shutPc, opcPc, closed>>
    /\ UNCHANGED <<connVars, envVars, sessVars>>
    /\ UNCHANGED <<callVars, objVars, ioVars>>

InSeq(x, q) == \E i \in 1..Len(q) : q[i] = x

\* checkStillValid: CloseWithError on every session of c.sessions, c.mu.Unlock()
checkStillValidClose(c) ==
    /\ ~Crashed
    /\ chkPc[c] = "closing"
    /\ ssCtx' = [s \in Sess |->
                    IF InSeq(s, sessions[c]) THEN CloseWithError(ssCtx[s], AccessRevoked)
                    ELSE ssCtx[s]]
    /\ cMu' = [cMu EXCEPT ![c] = NoThread]
    /\ chkPc' = [chkPc EXCEPT ![c] = "idle"]
    /\ UNCHANGED <<connPc, activeConns, shutdownCalled, srvMu, sessions, wg, shutPc, opcPc, closed>>
    /\ UNCHANGED <<ssPc, ssConn, proc, killer, exitOnce, kills, exitCode, timer>>
    /\ UNCHANGED <<connVars, envVars>>
    /\ UNCHANGED <<callVars, objVars, ioVars>>

\* -------------------------------------------------------------- a session

srvUnchangedButLocks == UNCHANGED <<connPc, activeConns, shutdownCalled, shutPc, opcPc, chkPc, closed>>

\* run, attachSessionToConnIfNotShutdown: srv.mu.Lock()
attachLock(s) ==
    /\ ~Crashed
    /\ ssPc[s] = "run"
    /\ srvMu = NoThread
    /\ srvMu' = SessThread(s)
    /\ ssPc' = [ssPc EXCEPT ![s] = "attCheck"]
    /\ srvUnchangedButLocks
    /\ UNCHANGED <<cMu, sessions, wg>>
    /\ UNCHANGED <<ssConn, ssCtx, proc, killer, exitOnce, kills, exitCode, timer>>
    /\ UNCHANGED <<connVars, envVars>>
    /\ UNCHANGED <<callVars, objVars, ioVars>>

\* attachSession forgets sessionWaitGroup.Add(1)
attachCheckMutNoAdd(s) ==
    /\ ssPc[s] = "attCheck"
    /\ IF shutdownCalled
       THEN /\ srvMu' = NoThread
            /\ ssPc' = [ssPc EXCEPT ![s] = "refused"]
       ELSE /\ ssPc' = [ssPc EXCEPT ![s] = "attConn"]
            /\ UNCHANGED srvMu
    /\ srvUnchangedButLocks
    /\ UNCHANGED <<cMu, sessions, wg>>
    /\ UNCHANGED <<ssConn, ssCtx, proc, killer, exitOnce, kills, exitCode, timer>>
    /\ UNCHANGED <<connVars, envVars>>
    /\ UNCHANGED <<callVars, objVars, ioVars>>

\* the fence is looked at without holding srv.mu
attachCheckMutUnlocked(s) ==
    /\ ssPc[s] = "attCheck"
    /\ IF shutdownCalled
       THEN /\ srvMu' = NoThread
            /\ ssPc' = [ssPc EXCEPT ![s] = "refused"]
            /\ UNCHANGED wg
       ELSE /\ wg' = wg + 1
            /\ srvMu' = NoThread
            /\ ssPc' = [ssPc EXCEPT ![s] = "attConn"]
    /\ srvUnchangedButLocks
    /\ UNCHANGED <<cMu, sessions>>
    /\ UNCHANGED <<ssConn, ssCtx, proc, killer, exitOnce, kills, exitCode, timer>>
    /\ UNCHANGED <<connVars, envVars>>
    /\ UNCHANGED <<callVars, objVars, ioVars>>

\* attachSessionToConnIfNotShutdown: the fence set, srv.mu.Unlock() and return
\* false; unset, attachSession: sessionWaitGroup.Add(1)
attachCheck(s) ==
    /\ ~Crashed
    /\ ssPc[s] = "attCheck"
    /\ IF shutdownCalled
       THEN /\ srvMu' = NoThread
            /\ ssPc' = [ssPc EXCEPT ![s] = "refused"]
            /\ UNCHANGED wg
       ELSE /\ wg' = wg + 1
            /\ ssPc' = [ssPc EXCEPT ![s] = "attConn"]
            /\ UNCHANGED srvMu
    /\ srvUnchangedButLocks
    /\ UNCHANGED <<cMu, sessions>>
    /\ UNCHANGED <<ssConn, ssCtx, proc, killer, exitOnce, kills, exitCode, timer>>
    /\ UNCHANGED <<connVars, envVars>>
    /\ UNCHANGED <<callVars, objVars, ioVars>>

\* attachSession: c.mu.Lock()
attachConnLock(s) ==
    /\ ~Crashed
    /\ ssPc[s] = "attConn"
    /\ cMu[ssConn[s]] = NoThread
    /\ cMu' = [cMu EXCEPT ![ssConn[s]] = SessThread(s)]
    /\ ssPc' = [ssPc EXCEPT ![s] = "attAppend"]
    /\ srvUnchangedButLocks
    /\ UNCHANGED <<srvMu, sessions, wg>>
    /\ UNCHANGED <<ssConn, ssCtx, proc, killer, exitOnce, kills, exitCode, timer>>
    /\ UNCHANGED <<connVars, envVars>>
    /\ UNCHANGED <<callVars, objVars, ioVars>>

\* attachSession: the append, c.mu.Unlock(); then srv.mu.Unlock()
attachAppend(s) ==
    /\ ~Crashed
    /\ ssPc[s] = "attAppend"
    /\ sessions' = [sessions EXCEPT ![ssConn[s]] = Append(@, s)]
    /\ cMu' = [cMu EXCEPT ![ssConn[s]] = NoThread]
    /\ srvMu' = IF srvMu = SessThread(s) THEN NoThread ELSE srvMu
    /\ ssPc' = [ssPc EXCEPT ![s] = "attached"]
    /\ srvUnchangedButLocks
    /\ UNCHANGED wg
    /\ UNCHANGED <<ssConn, ssCtx, proc, killer, exitOnce, kills, exitCode, timer>>
    /\ UNCHANGED <<connVars, envVars>>
    /\ UNCHANGED <<callVars, objVars, ioVars>>

\* run, not attached: the message, Exit(1), the deferred CloseWithError
refusedExit(s) ==
    /\ ~Crashed
    /\ ssPc[s] = "refused"
    /\ exitCode' = [exitCode EXCEPT ![s] = 1]
    /\ ssCtx' = [ssCtx EXCEPT ![s] = CloseWithError(@, errSessionDone)]
    /\ ssPc' = [ssPc EXCEPT ![s] = "refusedEnd"]
    /\ UNCHANGED <<ssConn, proc, killer, exitOnce, kills, timer>>
    /\ UNCHANGED <<connVars, envVars, srvVars>>
    /\ UNCHANGED <<callVars, objVars, ioVars>>

\* the steps of handleSSHAgentForwarding that can fail: NewAgentListener, the
\* two ParseUint, Chmod of the socket, Chown, Chmod of its directory
AgentFailures == {"listen", "uid", "gid", "chmod", "chown", "chmodDir"}

\* handleSSHAgentForwarding, lines 946 to 986.  The deferred function reads
\* the variable err declared with ln at line 951, which the two ParseUint
\* assign (lines 961 and 965); the errors of Chmod and Chown are held by
\* variables of their own if statements (lines 972, 975, 979) and returned
\* from there, err of line 951 being nil.
handleSSHAgentForwarding(requested, allowed, fail) ==
    IF ~requested \/ ~allowed THEN
        [err |-> "", created |-> FALSE, closed |-> FALSE, agentListener |-> FALSE]
    ELSE IF fail = "listen" THEN
        [err |-> fail, created |-> FALSE, closed |-> FALSE, agentListener |-> FALSE]
    ELSE LET err == IF fail \in {"uid", "gid"} THEN fail ELSE ""
         IN  [err |-> fail, created |-> TRUE, closed |-> err # "",
              agentListener |-> fail = ""]

\* What the host does to one run: euidOK (the euid is 0 or the uid of the
\* local user), agent (the client did not request agent forwarding, "none", or
\* it did and the named step of handleSSHAgentForwarding fails, if any), pty (the
\* client asked for a pty, so stderr is nil), record (the knob recordSSH is
\* set), recordingOK (startNewRecording succeeds), launchOK (launchProcess
\* succeeds).
Setups ==
    [euidOK : BOOLEAN, agent : {"none", ""} \cup AgentFailures, pty : BOOLEAN,
     record : BOOLEAN, recordingOK : BOOLEAN, launchOK : BOOLEAN]

\* the host of a run whose agent forwarding, if any, fails at the uid
HostSetups == {su \in Setups : su.agent \in {"none", "uid"}}

\* shouldRecord, lines 1126 to 1132
shouldRecord(su) == su.record /\ su.pty

\* a euid that is not that of the local user is not noticed
setupFailureMutIgnoresEuid(su) ==
    IF shouldRecord(su) /\ ~su.recordingOK THEN "recording"
    ELSE IF ~su.launchOK THEN "spawn"
    ELSE ""

\* run, lines 1023 to 1063: the step at which run gives up with Exit(1), ""
\* when it goes on to start the copies
setupFailure(su) ==
    IF ~su.euidOK THEN "euid"
    ELSE IF shouldRecord(su) /\ ~su.recordingOK THEN "recording"
    ELSE IF ~su.launchOK THEN "spawn"
    ELSE ""

\* the counter starts at 1 whatever the streams
OutputStreamsMutOne(pty) == 1

\* run, lines 1073 to 1078: stderr is nil for a pty
OutputStreams(pty) == IF pty THEN 1 ELSE 2

StartedPump == [pc |-> "copy", n |-> 0]

\* a timer is started whatever the duration
timerArmedMutAlways(a) == TRUE

\* run, line 1013: time.AfterFunc is called for the final action a
timerArmed(a) == a.SessionDuration # 0

\* startNewRecording, lines 1355 to 1386: the first line of the recording; an
\* event line is its direction and the number of its chunk
CastHeader == <<"header", 0>>

\* run from the attach to the start of the copies: the timer of the session
\* duration, the euid check, agent forwarding (its error is logged), the
\* recording with its header line, launchProcess, go killProcessOnContextDone
\* and the copy goroutines.  A failure: Exit(1) and the deferred calls up to
\* t.Stop().  setups: what the host may do to this run.
setupAndLaunch(s, setups) ==
    /\ ~Crashed
    /\ ssPc[s] = "attached"
    /\ \E su \in setups :
          LET armed == timerArmed(conn[ssConn[s]].finalAction)
              failed == setupFailure(su)
              recorded == shouldRecord(su) /\ su.euidOK /\ su.recordingOK
              ag == handleSSHAgentForwarding(su.agent # "none",
                                             conn[ssConn[s]].finalAction.AllowAgentForwarding,
                                             IF su.agent = "none" THEN "" ELSE su.agent)
              \* the deferred ss.agentListener.Close() of line 1042
              deferred == IF ag.agentListener THEN 1 ELSE 0
          IN /\ setup' = [setup EXCEPT ![s] =
                             [pty |-> su.pty, recording |-> recorded,
                              euidErr |-> ~su.euidOK,
                              agentErr |-> su.euidOK /\ ag.err # "",
                              recordingErr |-> su.euidOK /\ shouldRecord(su) /\ ~su.recordingOK,
                              launchErr |-> su.euidOK /\ ~su.launchOK
                                            /\ (shouldRecord(su) => su.recordingOK),
                              failed |-> failed]]
             /\ cast' = [cast EXCEPT ![s] = IF recorded THEN <<CastHeader>> ELSE <<>>]
             /\ IF failed = ""
                THEN /\ timer' = [timer EXCEPT ![s] = IF armed THEN "armed" ELSE "none"]
                     /\ proc' = [proc EXCEPT ![s] = [st |-> "running", code |-> 0]]
                     /\ killer' = [killer EXCEPT ![s] = "waiting"]
                     /\ rec' = [rec EXCEPT ![s] = IF recorded THEN "open" ELSE "nil"]
                     /\ pumps' = [pumps EXCEPT ![s] =
                                     [stdin |-> StartedPump, stdout |-> StartedPump,
                                      stderr |-> IF su.pty THEN NoPump ELSE StartedPump]]
                     /\ openOutputStreams' = [openOutputStreams EXCEPT ![s] = OutputStreams(su.pty)]
                     /\ ssPc' = [ssPc EXCEPT ![s] = "wait"]
                     /\ agent' = [agent EXCEPT ![s] =
                                     [requested |-> su.agent # "none", created |-> ag.created,
                                      closes |-> IF ag.closed THEN 1 ELSE 0,
                                      set |-> ag.agentListener]]
                     /\ UNCHANGED <<exitCode, ssCtx, outCloses>>
                ELSE \* the timer may fire between AfterFunc and the deferred Stop
                     /\ \E t \in IF armed THEN {"stopped", "firing"} ELSE {"none"} :
                           timer' = [timer EXCEPT ![s] = t]
                     /\ UNCHANGED ssCtx
                     /\ rec' = [rec EXCEPT ![s] = IF recorded THEN "closed" ELSE "nil"]
                     /\ outCloses' = [outCloses EXCEPT ![s] = IF recorded THEN 1 ELSE 0]
                     /\ agent' = [agent EXCEPT ![s] =
                                     IF su.euidOK
                                     THEN [requested |-> su.agent # "none",
                                           created |-> ag.created,
                                           closes |-> (IF ag.closed THEN 1 ELSE 0) + deferred,
                                           set |-> ag.agentListener]
                                     ELSE [@ EXCEPT !.requested = su.agent # "none"]]
                     /\ exitCode' = [exitCode EXCEPT ![s] = 1]
                     /\ ssPc' = [ssPc EXCEPT ![s] = "detach"]
                     /\ UNCHANGED <<proc, killer, pumps, openOutputStreams>>
    /\ UNCHANGED <<ssConn, exitOnce, kills>>
    /\ UNCHANGED <<closeWrites, toChild, toClient, termLog>>
    /\ UNCHANGED <<connVars, envVars, srvVars, callVars, recMu, recPc, fsaVars>>

\* the child process ends by itself
processExits(s) ==
    /\ ~Crashed
    /\ proc[s].st = "running"
    /\ \E code \in {0, 2} : proc' = [proc EXCEPT ![s] = [st |-> "exited", code |-> code]]
    /\ UNCHANGED <<ssPc, ssConn, ssCtx, killer, exitOnce, kills, exitCode, timer>>
    /\ UNCHANGED <<connVars, envVars, srvVars>>
    /\ UNCHANGED <<callVars, objVars, ioVars>>

\* the session duration elapses: the timer fires and its function is started
\* in a goroutine, which the deferred t.Stop() no longer prevents
timerFires(s) ==
    /\ ~Crashed
    /\ timer[s] = "armed"
    /\ timer' = [timer EXCEPT ![s] = "firing"]
    /\ UNCHANGED <<ssPc, ssConn, ssCtx, proc, killer, exitOnce, kills, exitCode>>
    /\ UNCHANGED <<connVars, envVars, srvVars>>
    /\ UNCHANGED <<callVars, objVars, ioVars>>

\* the function of the AfterFunc, lines 1014 to 1019
timerRuns(s) ==
    /\ ~Crashed
    /\ timer[s] = "firing"
    /\ timer' = [timer EXCEPT ![s] = "fired"]
    /\ ssCtx' = [ssCtx EXCEPT ![s] = CloseWithError(@, SessionTimeout)]
    /\ UNCHANGED <<ssPc, ssConn, proc, killer, exitOnce, kills, exitCode>>
    /\ UNCHANGED <<connVars, envVars, srvVars>>
    /\ UNCHANGED <<callVars, objVars, ioVars>>

errCopy == "copy error"

\* the stdin copy fails on its first read, the context still open:
\* CloseWithError(err) and the deferred ss.stdin.Close()
pumpError(s) ==
    /\ ~Crashed
    /\ ssPc[s] \in {"wait", "once", "detach", "detRemove", "detDone", "closing"}
    /\ killer[s] # "none"
    /\ pumps[s].stdin = StartedPump
    /\ ~ssCtx[s].done
    /\ ssCtx' = [ssCtx EXCEPT ![s] = CloseWithError(@, errCopy)]
    /\ pumps' = [pumps EXCEPT ![s].stdin.pc = "done"]
    /\ UNCHANGED <<ssPc, ssConn, proc, killer, exitOnce, kills, exitCode, timer>>
    /\ UNCHANGED <<setup, openOutputStreams, closeWrites, rec, cast, toChild, toClient, termLog>>
    /\ UNCHANGED <<connVars, envVars, srvVars, callVars, objVars>>

\* run: cmd.Wait() returns
cmdWaitReturns(s) ==
    /\ ~Crashed
    /\ ssPc[s] = "wait"
    /\ proc[s].st \in {"exited", "killed"}
    /\ ssPc' = [ssPc EXCEPT ![s] = "once"]
    /\ UNCHANGED <<ssConn, ssCtx, proc, killer, exitOnce, kills, exitCode, timer>>
    /\ UNCHANGED <<connVars, envVars, srvVars>>
    /\ UNCHANGED <<callVars, objVars, ioVars>>

\* run: exitOnce.Do(func() {}), which waits while the killer is inside its
\* Do; then Exit with the status of the process, and the deferred
\* rec.Close(), ss.agentListener.Close() and t.Stop()
runExitOnce(s) ==
    /\ ~Crashed
    /\ ssPc[s] = "once"
    /\ exitOnce[s] # "running"
    /\ exitOnce' = [exitOnce EXCEPT ![s] = "done"]
    /\ exitCode' = [exitCode EXCEPT ![s] = IF proc[s].st = "killed" THEN -1 ELSE proc[s].code]
    /\ timer' = [timer EXCEPT ![s] = IF @ = "armed" THEN "stopped" ELSE @]
    /\ ssPc' = [ssPc EXCEPT ![s] = "detach"]
    /\ recMu[s] = NoRecCaller
    /\ rec' = [rec EXCEPT ![s] = IF @ = "open" THEN "closed" ELSE @]
    /\ outCloses' = [outCloses EXCEPT ![s] = IF rec[s] = "open" THEN @ + 1 ELSE @]
    /\ UNCHANGED <<ssConn, ssCtx, proc, killer, kills>>
    /\ agent' = [agent EXCEPT ![s].closes = IF agent[s].set THEN @ + 1 ELSE @]
    /\ UNCHANGED <<setup, pumps, openOutputStreams, closeWrites, cast, toChild, toClient, termLog>>
    /\ UNCHANGED <<connVars, envVars, srvVars, callVars, recMu, recPc, fsaVars>>

\* killProcessOnContextDone: the context is done, exitOnce.Do is entered
killerWakes(s) ==
    /\ ~Crashed
    /\ killer[s] = "waiting"
    /\ ssCtx[s].done
    /\ IF exitOnce[s] = "fresh"
       THEN /\ exitOnce' = [exitOnce EXCEPT ![s] = "running"]
            /\ killer' = [killer EXCEPT ![s] = "inOnce"]
       ELSE /\ exitOnce[s] = "done"
            /\ killer' = [killer EXCEPT ![s] = "done"]
            /\ UNCHANGED exitOnce
    /\ UNCHANGED <<ssPc, ssConn, ssCtx, proc, kills, exitCode, timer>>
    /\ UNCHANGED <<connVars, envVars, srvVars>>
    /\ UNCHANGED <<callVars, objVars, ioVars>>

\* Process.Kill is called before the message is written
killerTerminatesMutKillFirst(cause) ==
    <<"kill">> \o (IF SSHTerminationMessage(cause) # "" THEN <<SSHTerminationMessage(cause)>>
                   ELSE <<>>)

\* killProcessOnContextDone, lines 901 to 913, where ss.ctx.Err() is cause:
\* what is written to the session's stderr, then the call of Process.Kill
killerTerminates(cause) ==
    (IF SSHTerminationMessage(cause) # "" THEN <<SSHTerminationMessage(cause)>> ELSE <<>>)
    \o <<"kill">>

\* the killer calls Process.Kill without the gate, again and again
killerKillsMutUngated(s) ==
    /\ ~Crashed
    /\ killer[s] \in {"inOnce", "done"}
    /\ kills[s] < 2
    /\ kills' = [kills EXCEPT ![s] = @ + 1]
    /\ proc' = [proc EXCEPT ![s] = IF @.st = "running" THEN [st |-> "killed", code |-> -1] ELSE @]
    /\ exitOnce' = [exitOnce EXCEPT ![s] = "done"]
    /\ killer' = [killer EXCEPT ![s] = "done"]
    /\ UNCHANGED <<ssPc, ssConn, ssCtx, exitCode, timer>>
    /\ UNCHANGED <<connVars, envVars, srvVars>>
    /\ UNCHANGED <<callVars, objVars, ioVars>>

\* killProcessOnContextDone, inside exitOnce.Do: the termination message,
\* cmd.Process.Kill(); Do returns
killerKills(s) ==
    /\ ~Crashed
    /\ killer[s] = "inOnce"
    /\ kills' = [kills EXCEPT ![s] = @ + 1]
    /\ proc' = [proc EXCEPT ![s] = IF @.st = "running" THEN [st |-> "killed", code |-> -1] ELSE @]
    /\ exitOnce' = [exitOnce EXCEPT ![s] = "done"]
    /\ killer' = [killer EXCEPT ![s] = "done"]
    /\ termLog' = [termLog EXCEPT ![s] = @ \o killerTerminates(ssCtx[s].cause)]
    /\ UNCHANGED <<ssPc, ssConn, ssCtx, exitCode, timer>>
    /\ UNCHANGED <<setup, pumps, openOutputStreams, closeWrites, rec, cast, toChild, toClient>>
    /\ UNCHANGED <<connVars, envVars, srvVars, callVars, objVars>>

\* detachSession: c.mu.Lock()
detachLock(s) ==
    /\ ~Crashed
    /\ ssPc[s] = "detach"
    /\ cMu[ssConn[s]] = NoThread
    /\ cMu' = [cMu EXCEPT ![ssConn[s]] = SessThread(s)]
    /\ ssPc' = [ssPc EXCEPT ![s] = "detRemove"]
    /\ srvUnchangedButLocks
    /\ UNCHANGED <<srvMu, sessions, wg>>
    /\ UNCHANGED <<ssConn, ssCtx, proc, killer, exitOnce, kills, exitCode, timer>>
    /\ UNCHANGED <<connVars, envVars>>
    /\ UNCHANGED <<callVars, objVars, ioVars>>

RemoveFirst(q, x) ==
    IF ~InSeq(x, q) THEN q
    ELSE LET i == CHOOSE k \in 1..Len(q) : q[k] = x /\ \A j \in 1..(k - 1) : q[j] # x
         IN SubSeq(q, 1, i - 1) \o SubSeq(q, i + 1, Len(q))

\* detachSession: the session removed from c.sessions, c.mu.Unlock()
detachRemove(s) ==
    /\ ~Crashed
    /\ ssPc[s] = "detRemove"
    /\ sessions' = [sessions EXCEPT ![ssConn[s]] = RemoveFirst(@, s)]
    /\ cMu' = [cMu EXCEPT ![ssConn[s]] = NoThread]
    /\ ssPc' = [ssPc EXCEPT ![s] = "detDone"]
    /\ srvUnchangedButLocks
    /\ UNCHANGED <<srvMu, wg>>
    /\ UNCHANGED <<ssConn, ssCtx, proc, killer, exitOnce, kills, exitCode, timer>>
    /\ UNCHANGED <<connVars, envVars>>
    /\ UNCHANGED <<callVars, objVars, ioVars>>

\* detachSession returns without sessionWaitGroup.Done()
detachDoneMutNoDone(s) ==
    /\ ~Crashed
    /\ ssPc[s] = "detDone"
    /\ ssPc' = [ssPc EXCEPT ![s] = "closing"]
    /\ srvUnchangedButLocks
    /\ UNCHANGED <<srvMu, cMu, sessions, wg>>
    /\ UNCHANGED <<ssConn, ssCtx, proc, killer, exitOnce, kills, exitCode, timer>>
    /\ UNCHANGED <<connVars, envVars>>
    /\ UNCHANGED <<callVars, objVars, ioVars>>

\* detachSession: the deferred sessionWaitGroup.Done()
detachDone(s) ==
    /\ ~Crashed
    /\ ssPc[s] = "detDone"
    /\ wg' = wg - 1
    /\ ssPc' = [ssPc EXCEPT ![s] = "closing"]
    /\ srvUnchangedButLocks
    /\ UNCHANGED <<srvMu, cMu, sessions>>
    /\ UNCHANGED <<ssConn, ssCtx, proc, killer, exitOnce, kills, exitCode, timer>>
    /\ UNCHANGED <<connVars, envVars>>
    /\ UNCHANGED <<callVars, objVars, ioVars>>

\* run returns and leaves the context of the session as it is
runReturnsMutNoClose(s) ==
    /\ ~Crashed
    /\ ssPc[s] = "closing"
    /\ ssPc' = [ssPc EXCEPT ![s] = "ended"]
    /\ UNCHANGED <<ssConn, ssCtx, proc, killer, exitOnce, kills, exitCode, timer>>
    /\ UNCHANGED <<connVars, envVars, srvVars>>
    /\ UNCHANGED <<callVars, objVars, ioVars>>

\* run returns: the deferred ss.ctx.CloseWithError(errSessionDone)
runReturns(s) ==
    /\ ~Crashed
    /\ ssPc[s] = "closing"
    /\ ssCtx' = [ssCtx EXCEPT ![s] = CloseWithError(@, errSessionDone)]
    /\ ssPc' = [ssPc EXCEPT ![s] = "ended"]
    /\ UNCHANGED <<ssConn, proc, killer, exitOnce, kills, exitCode, timer>>
    /\ UNCHANGED <<connVars, envVars, srvVars>>
    /\ UNCHANGED <<callVars, objVars, ioVars>>

\* -------------------------------------------------------------- the copies

\* dir is "i" for the copy from the client to the child's stdin, "o" for the
\* copy from the child's stdout to the client
PumpOf(dir) == IF dir = "i" THEN "stdin" ELSE "stdout"

\* where a copy goroutine goes once io.Copy has returned: the stdout one to
\* openOutputStreams.Add(-1)
CopyReturned(dir) == IF dir = "i" THEN "done" ELSE "count"

errLoggerClosed == "logger closed"
errLoggerWrite == "logger Write"

\* writeCastLine, lines 1447 to 1458: out is rec.out, diskOK whether the
\* write to the file succeeds; "" is a nil error
writeCastLine(out, diskOK) ==
    IF out # "open" THEN errLoggerClosed
    ELSE IF ~diskOK THEN errLoggerWrite
    ELSE ""

\* io.Copy reads: a chunk, the end of the stream, or an error.  The stdin
\* goroutine (lines 1066 to 1072) and the stdout goroutine (lines 1079 to 1085)
\* call CloseWithError with the error of the copy.
copyRead(s, dir) ==
    /\ ~Crashed
    /\ pumps[s][PumpOf(dir)].pc = "copy"
    /\ \E got \in {"chunk", "EOF", "error"} :
          CASE got = "chunk" ->
                 /\ pumps[s][PumpOf(dir)].n < MaxChunks
                 /\ pumps' = [pumps EXCEPT ![s][PumpOf(dir)] =
                                 [pc |-> IF setup[s].recording THEN "rec" ELSE "fwd",
                                  n |-> @.n + 1]]
                 /\ UNCHANGED ssCtx
            [] got = "EOF" ->
                 /\ pumps' = [pumps EXCEPT ![s][PumpOf(dir)].pc = CopyReturned(dir)]
                 /\ UNCHANGED ssCtx
            [] got = "error" ->
                 /\ pumps' = [pumps EXCEPT ![s][PumpOf(dir)].pc = CopyReturned(dir)]
                 /\ ssCtx' = [ssCtx EXCEPT ![s] = CloseWithError(@, errCopy)]
    /\ UNCHANGED <<ssPc, ssConn, proc, killer, exitOnce, kills, exitCode, timer>>
    /\ UNCHANGED <<setup, openOutputStreams, closeWrites, rec, cast, toChild, toClient, termLog>>
    /\ UNCHANGED <<connVars, envVars, srvVars, callVars, objVars>>

\* the chunk goes on to the underlying writer though the cast line was not
\* written
loggingWriterWriteMutForwardsOnError(s, dir) ==
    /\ ~Crashed
    /\ pumps[s][PumpOf(dir)].pc = "rec"
    /\ \E diskOK \in BOOLEAN :
          IF writeCastLine(rec[s], diskOK) = ""
          THEN cast' = [cast EXCEPT ![s] = Append(@, <<dir, pumps[s][PumpOf(dir)].n>>)]
          ELSE UNCHANGED cast
    /\ pumps' = [pumps EXCEPT ![s][PumpOf(dir)].pc = "fwd"]
    /\ UNCHANGED <<ssPc, ssConn, ssCtx, proc, killer, exitOnce, kills, exitCode, timer>>
    /\ UNCHANGED <<setup, openOutputStreams, closeWrites, rec, toChild, toClient, termLog>>
    /\ UNCHANGED <<connVars, envVars, srvVars, callVars, objVars>>

\* loggingWriter.Write, lines 1431 to 1443: the cast line of the chunk is
\* written; an error is returned to io.Copy, which returns it to the goroutine
loggingWriterWrite(s, dir) ==
    /\ ~Crashed
    /\ pumps[s][PumpOf(dir)].pc = "rec"
    /\ \E diskOK \in BOOLEAN :
          LET err == writeCastLine(rec[s], diskOK)
          IN IF err = ""
             THEN /\ cast' = [cast EXCEPT ![s] = Append(@, <<dir, pumps[s][PumpOf(dir)].n>>)]
                  /\ pumps' = [pumps EXCEPT ![s][PumpOf(dir)].pc = "fwd"]
                  /\ UNCHANGED ssCtx
             ELSE /\ pumps' = [pumps EXCEPT ![s][PumpOf(dir)].pc = CopyReturned(dir)]
                  /\ ssCtx' = [ssCtx EXCEPT ![s] = CloseWithError(@, err)]
                  /\ UNCHANGED cast
    /\ UNCHANGED <<ssPc, ssConn, proc, killer, exitOnce, kills, exitCode, timer>>
    /\ UNCHANGED <<setup, openOutputStreams, closeWrites, rec, toChild, toClient, termLog>>
    /\ UNCHANGED <<connVars, envVars, srvVars, callVars, objVars>>

\* the chunk is written to the child's stdin or to the client (line 1444 when
\* the writer is a loggingWriter); an error ends the copy
copyWrite(s, dir) ==
    /\ ~Crashed
    /\ pumps[s][PumpOf(dir)].pc = "fwd"
    /\ \E ok \in BOOLEAN :
          IF ok
          THEN /\ toChild' = [toChild EXCEPT ![s] =
                                 IF dir = "i" THEN Append(@, pumps[s].stdin.n) ELSE @]
               /\ toClient' = [toClient EXCEPT ![s] =
                                  IF dir = "o" THEN Append(@, pumps[s].stdout.n) ELSE @]
               /\ pumps' = [pumps EXCEPT ![s][PumpOf(dir)].pc = "copy"]
               /\ UNCHANGED ssCtx
          ELSE /\ pumps' = [pumps EXCEPT ![s][PumpOf(dir)].pc = CopyReturned(dir)]
               /\ ssCtx' = [ssCtx EXCEPT ![s] = CloseWithError(@, errCopy)]
               /\ UNCHANGED <<toChild, toClient>>
    /\ UNCHANGED <<ssPc, ssConn, proc, killer, exitOnce, kills, exitCode, timer>>
    /\ UNCHANGED <<setup, openOutputStreams, closeWrites, rec, cast, termLog>>
    /\ UNCHANGED <<connVars, envVars, srvVars, callVars, objVars>>

\* the stderr goroutine, lines 1092 to 1096: io.Copy returns, its error logged
stderrCopyReturns(s) ==
    /\ ~Crashed
    /\ pumps[s].stderr.pc = "copy"
    /\ pumps' = [pumps EXCEPT ![s].stderr.pc = "count"]
    /\ UNCHANGED <<ssPc, ssConn, ssCtx, proc, killer, exitOnce, kills, exitCode, timer>>
    /\ UNCHANGED <<setup, openOutputStreams, closeWrites, rec, cast, toChild, toClient, termLog>>
    /\ UNCHANGED <<connVars, envVars, srvVars, callVars, objVars>>

\* lines 1086 and 1097: openOutputStreams.Add(-1) in the goroutine p ("stdout"
\* or "stderr"), which goes on to CloseWrite when the counter reached 0
outputStreamDone(s, p) ==
    /\ ~Crashed
    /\ pumps[s][p].pc = "count"
    /\ openOutputStreams' = [openOutputStreams EXCEPT ![s] = @ - 1]
    /\ pumps' = [pumps EXCEPT ![s][p].pc =
                     IF openOutputStreams[s] - 1 = 0 THEN "close" ELSE "done"]
    /\ UNCHANGED <<ssPc, ssConn, ssCtx, proc, killer, exitOnce, kills, exitCode, timer>>
    /\ UNCHANGED <<setup, closeWrites, rec, cast, toChild, toClient, termLog>>
    /\ UNCHANGED <<connVars, envVars, srvVars, callVars, objVars>>

\* lines 1087 and 1098: ss.CloseWrite()
closeWrite(s, p) ==
    /\ ~Crashed
    /\ pumps[s][p].pc = "close"
    /\ closeWrites' = [closeWrites EXCEPT ![s] = @ + 1]
    /\ pumps' = [pumps EXCEPT ![s][p].pc = "done"]
    /\ UNCHANGED <<ssPc, ssConn, ssCtx, proc, killer, exitOnce, kills, exitCode, timer>>
    /\ UNCHANGED <<setup, openOutputStreams, rec, cast, toChild, toClient, termLog>>
    /\ UNCHANGED <<connVars, envVars, srvVars, callVars, objVars>>

\* the goroutines that copy the streams of session s
copySteps(s) ==
    \/ \E dir \in {"i", "o"} : copyRead(s, dir) \/ loggingWriterWrite(s, dir) \/ copyWrite(s, dir)
    \/ stderrCopyReturns(s)
    \/ \E p \in {"stdout", "stderr"} : outputStreamDone(s, p) \/ closeWrite(s, p)

\* ----------------------------------------------------------- the recording

\* the calls of Close the model makes on one recording
MaxCloses == 2

\* a call holds rec.mu between its Lock and its deferred Unlock
HoldsRecMu(s, t) == recPc[s][t].pc \in {"locked", "write", "unlock"}

recUnchangedButCalls ==
    /\ UNCHANGED <<setup, pumps, openOutputStreams, closeWrites, toChild, toClient, termLog>>
    /\ UNCHANGED <<connVars, envVars, srvVars, sessVars, callVars, fsaVars, agent>>

\* loggingWriter.Write of the copy dir reaches writeCastLine, line 1440, with
\* the line of its next chunk
writeCastLineCall(s, dir) ==
    /\ ~Crashed
    /\ rec[s] # "nil"
    /\ recPc[s][dir].pc = "idle"
    /\ recPc[s][dir].n < MaxChunks
    /\ recPc' = [recPc EXCEPT ![s][dir] = [pc |-> "lock", n |-> @.n + 1, err |-> ""]]
    /\ recUnchangedButCalls
    /\ UNCHANGED <<rec, cast, recMu, outCloses>>

\* the call goes on without rec.mu
recLockMutNoMutex(s, t) ==
    /\ ~Crashed
    /\ recPc[s][t].pc = "lock"
    /\ recMu' = [recMu EXCEPT ![s] = t]
    /\ recPc' = [recPc EXCEPT ![s][t].pc = "locked"]
    /\ recUnchangedButCalls
    /\ UNCHANGED <<rec, cast, outCloses>>

\* w.r.mu.Lock() of writeCastLine, line 1448, and r.mu.Lock() of Close, line
\* 1401
recLock(s, t) ==
    /\ ~Crashed
    /\ recPc[s][t].pc = "lock"
    /\ recMu[s] = NoRecCaller
    /\ recMu' = [recMu EXCEPT ![s] = t]
    /\ recPc' = [recPc EXCEPT ![s][t].pc = "locked"]
    /\ recUnchangedButCalls
    /\ UNCHANGED <<rec, cast, outCloses>>

\* writeCastLine, lines 1450 to 1456: "logger closed" when r.out is nil; else
\* the write to the file begins, or fails
writeCastLineBegins(s, dir) ==
    /\ ~Crashed
    /\ recPc[s][dir].pc = "locked"
    /\ \E diskOK \in BOOLEAN :
          LET err == writeCastLine(rec[s], diskOK)
          IN IF err = ""
             THEN /\ cast' = [cast EXCEPT ![s] = Append(@, <<dir, recPc[s][dir].n, 1>>)]
                  /\ recPc' = [recPc EXCEPT ![s][dir].pc = "write"]
             ELSE /\ recPc' = [recPc EXCEPT ![s][dir] = [@ EXCEPT !.pc = "unlock", !.err = err]]
                  /\ UNCHANGED cast
    /\ recUnchangedButCalls
    /\ UNCHANGED <<rec, recMu, outCloses>>

\* the rest of the line reaches the file: w.r.out.Write returns, line 1453
writeCastLineEnds(s, dir) ==
    /\ ~Crashed
    /\ recPc[s][dir].pc = "write"
    /\ cast' = [cast EXCEPT ![s] = Append(@, <<dir, recPc[s][dir].n, 2>>)]
    /\ recPc' = [recPc EXCEPT ![s][dir].pc = "unlock"]
    /\ recUnchangedButCalls
    /\ UNCHANGED <<rec, recMu, outCloses>>

\* the deferred Unlock of writeCastLine and of Close; the call returns
recUnlock(s, t) ==
    /\ ~Crashed
    /\ recPc[s][t].pc = "unlock"
    /\ recMu' = [recMu EXCEPT ![s] = IF @ = t THEN NoRecCaller ELSE @]
    /\ recPc' = [recPc EXCEPT ![s][t].pc = "idle"]
    /\ recUnchangedButCalls
    /\ UNCHANGED <<rec, cast, outCloses>>

\* recording.Close is called, line 1400
recordingCloseCall(s) ==
    /\ ~Crashed
    /\ rec[s] # "nil"
    /\ recPc[s]["close"].pc = "idle"
    /\ recPc[s]["close"].n < MaxCloses
    /\ recPc' = [recPc EXCEPT ![s]["close"] = [pc |-> "lock", n |-> @.n + 1, err |-> ""]]
    /\ recUnchangedButCalls
    /\ UNCHANGED <<rec, cast, recMu, outCloses>>

\* Close, lines 1403 to 1408: nothing when r.out is nil, else r.out.Close()
\* and r.out = nil
recordingClose(s) ==
    /\ ~Crashed
    /\ recPc[s]["close"].pc = "locked"
    /\ rec' = [rec EXCEPT ![s] = IF @ = "open" THEN "closed" ELSE @]
    /\ outCloses' = [outCloses EXCEPT ![s] = IF rec[s] = "open" THEN @ + 1 ELSE @]
    /\ recPc' = [recPc EXCEPT ![s]["close"].pc = "unlock"]
    /\ recUnchangedButCalls
    /\ UNCHANGED <<cast, recMu>>

\* the callers of the recording of session s
recordingSteps(s) ==
    \/ \E dir \in {"i", "o"} :
          writeCastLineCall(s, dir) \/ writeCastLineBegins(s, dir) \/ writeCastLineEnds(s, dir)
    \/ \E t \in RecCallers : recLock(s, t) \/ recUnlock(s, t)
    \/ recordingCloseCall(s)
    \/ recordingClose(s)

\* ------------------------------------------------------- the delegate fetch

\* the responses the model lets fail before the delegate must answer
MaxRetries == 5

\* what DoNoiseRequest may return: an error, or a response with its status,
\* whether its body decodes as an SSHAction, and the action in the body
FailedDo == [err |-> TRUE, status |-> 0, decodes |-> FALSE, action |-> NilAction]
Responses ==
    {FailedDo}
    \cup [err : {FALSE}, status : {200, 500}, decodes : {FALSE}, action : {NilAction}]
    \cup [err : {FALSE}, status : {200, 500}, decodes : {TRUE},
          action : {ActAccept, ActReject, ActHold}]

\* the action of a body that decodes is returned whatever the status
fetchSSHActionResponseMutAnyStatus(res) ==
    IF res.err THEN [retry |-> TRUE, action |-> NilAction]
    ELSE IF ~res.decodes THEN [retry |-> TRUE, action |-> NilAction]
    ELSE [retry |-> FALSE, action |-> res.action]

\* fetchSSHAction, lines 867 to 890: what the loop does with what
\* DoNoiseRequest returned
fetchSSHActionResponse(res) ==
    IF res.err THEN [retry |-> TRUE, action |-> NilAction]
    ELSE IF res.status # 200 THEN [retry |-> TRUE, action |-> NilAction]
    ELSE IF ~res.decodes THEN [retry |-> TRUE, action |-> NilAction]
    ELSE [retry |-> FALSE, action |-> res.action]

fsaUnchanged ==
    /\ UNCHANGED <<connVars, envVars, srvVars, sessVars, ioVars, callVars, recVars, agent>>

\* fetchSSHAction is called, lines 855 to 858
fetchSSHActionCall ==
    /\ ~Crashed
    /\ fsa.pc = "idle"
    /\ fsa' = [IdleFetch EXCEPT !.pc = "check"]
    /\ UNCHANGED <<fsaCtx, delegate>>
    /\ fsaUnchanged

\* lines 860 to 862: the context is done, its error is returned
fetchSSHActionCheck ==
    /\ ~Crashed
    /\ fsa.pc = "check"
    /\ fsa' = IF fsaCtx # "live"
              THEN [fsa EXCEPT !.pc = "returned", !.err = fsaCtx]
              ELSE [fsa EXCEPT !.pc = "request"]
    /\ UNCHANGED <<fsaCtx, delegate>>
    /\ fsaUnchanged

\* lines 863 to 890: the request; a request whose context is done fails; the
\* delegate, once up, answers 200 with an action that decodes
fetchSSHActionDo ==
    /\ ~Crashed
    /\ fsa.pc = "request"
    /\ \E res \in Responses :
          /\ fsaCtx # "live" => res = FailedDo
          /\ fsaCtx = "live" /\ delegate = "up" => ~fetchSSHActionResponse(res).retry
          /\ fetchSSHActionResponse(res).retry /\ fsaCtx = "live" => fsa.n < MaxRetries
          /\ LET r == fetchSSHActionResponse(res)
             IN fsa' = IF r.retry
                       THEN [fsa EXCEPT !.pc = "backoff", !.last = res,
                                        !.n = IF @ < MaxRetries THEN @ + 1 ELSE @]
                       ELSE [fsa EXCEPT !.pc = "returned", !.last = res, !.action = r.action]
    /\ UNCHANGED <<fsaCtx, delegate>>
    /\ fsaUnchanged

\* bo.BackOff returns, the delay over or the context done: continue
fetchSSHActionBackOff ==
    /\ ~Crashed
    /\ fsa.pc = "backoff"
    /\ fsa' = [fsa EXCEPT !.pc = "check"]
    /\ UNCHANGED <<fsaCtx, delegate>>
    /\ fsaUnchanged

\* the client disconnects, or the 30 minutes of line 856 pass
fetchContextDone ==
    /\ ~Crashed
    /\ fsaCtx = "live"
    /\ fsa.pc # "idle"
    /\ \E cause \in {"context canceled", "context deadline exceeded"} : fsaCtx' = cause
    /\ UNCHANGED <<fsa, delegate>>
    /\ fsaUnchanged

\* the user has done what the delegate waits for
delegateRecovers ==
    /\ ~Crashed
    /\ delegate = "down"
    /\ delegate' = "up"
    /\ UNCHANGED <<fsa, fsaCtx>>
    /\ fsaUnchanged

\* ------------------------------------------------------------ the key cache

\* A URL is its scheme and the account whose keys it names; account 0 is the
\* one the model fetches, the others fill the cache.
HTTPSURL(k) == [scheme |-> "https", account |-> k]
TargetURL == HTTPSURL(0)
PlainURL == [scheme |-> "http", account |-> 0]

\* strings.HasPrefix(url, "https://")
HasPrefixHTTPS(url) == url.scheme = "https"

\* seconds
pubKeyCacheDuration == 60
pubKeyCacheEmptyDuration == 15

\* the zero pubKeyCacheEntry
ZeroEntry == [lines |-> <<>>, etag |-> "", at |-> 0]

EmptyCache == [u \in {} |-> ZeroEntry]

\* the entry is fresh when its age equals the maximum too
cachedFreshMutInclusive(ce, nw) ==
    nw - ce.at <= (IF Len(ce.lines) = 0 THEN pubKeyCacheEmptyDuration ELSE pubKeyCacheDuration)

\* fetchPublicKeysURLCached, lines 610 to 614
cachedFresh(ce, nw) ==
    nw - ce.at < (IF Len(ce.lines) = 0 THEN pubKeyCacheEmptyDuration ELSE pubKeyCacheDuration)

\* fetchPublicKeysURLCached, lines 598 to 605: with more than 50 entries,
\* every entry whose `at` is before now + 10 * pubKeyCacheDuration is deleted
cachePruned(m, nw) ==
    IF Cardinality(DOMAIN m) > 50
    THEN [k \in {u \in DOMAIN m : ~(m[u].at < nw + pubKeyCacheDuration * 10)} |-> m[k]]
    ELSE m

\* fetchPublicKeysURLCached, lines 606 to 614: m is the map after the pruning
cachedLookup(m, url, nw) ==
    IF url \notin DOMAIN m THEN [m |-> m, ce |-> ZeroEntry, ok |-> FALSE]
    ELSE [m |-> m, ce |-> m[url], ok |-> cachedFresh(m[url], nw)]

fetchPublicKeysURLCached(m, url, nw) == cachedLookup(cachePruned(m, nw), url, nw)

\* the documents the remote server can hold for the URL
Doc1 == [lines |-> <<Line1>>, etag |-> "v1"]
Doc2 == [lines |-> <<Line2>>, etag |-> "v2"]
DocEmpty == [lines |-> <<>>, etag |-> ""]
RemoteDocs == {Doc1, Doc2, DocEmpty}
RemoteDocs1 == Doc1

Fetchers == 1..NumFetchers

\* a call of fetchPublicKeysURL: pc, the url, the entry that
\* fetchPublicKeysURLCached returned (ce), whether the GET was made, the
\* status of the response, and the locals lines, etag, err: what the call
\* stores and returns.  A call that has returned keeps url, got, status,
\* lines, err.
IdleFetcher ==
    [pc |-> "idle", url |-> TargetURL, ce |-> ZeroEntry, got |-> FALSE, status |-> 0,
     lines |-> <<>>, etag |-> "", err |-> ""]

\* fetchPublicKeysURL is called: line 628
fetchPublicKeysURLCall(f) ==
    /\ fetcher[f].pc \in {"idle", "returned"}
    /\ \E url \in {TargetURL, PlainURL} :
          fetcher' = [fetcher EXCEPT ![f] =
                         IF HasPrefixHTTPS(url)
                         THEN [IdleFetcher EXCEPT !.pc = "lookup", !.url = url]
                         ELSE [IdleFetcher EXCEPT !.pc = "returned", !.url = url,
                                                  !.err = "invalid URL scheme"]]
    /\ UNCHANGED <<fetchPublicKeysCache, remote>>
    /\ UNCHANGED <<policy, polChanges, now, connVars, srvVars, sessVars>>
    /\ UNCHANGED <<callVars, objVars, ioVars>>

\* the call has what fetchPublicKeysURLCached returned: line 632 to 635
fetcherLooked(f, r) ==
    /\ fetchPublicKeysCache' = r.m
    /\ fetcher' = [fetcher EXCEPT ![f] =
                      [@ EXCEPT !.pc = IF r.ok THEN "returned" ELSE "request",
                                !.ce = IF r.ok THEN ZeroEntry ELSE r.ce,
                                !.lines = IF r.ok THEN r.ce.lines ELSE <<>>]]
    /\ UNCHANGED <<callVars, objVars, ioVars>>

\* fetchPublicKeysURLCached, under srv.mu
fetchLookup(f) ==
    /\ fetcher[f].pc = "lookup"
    /\ srvMu = NoThread
    /\ fetcherLooked(f, fetchPublicKeysURLCached(fetchPublicKeysCache, fetcher[f].url, now))
    /\ UNCHANGED remote
    /\ UNCHANGED <<policy, polChanges, now, connVars, srvVars, sessVars>>

\* the server answers a request that carries ifNoneMatch ("" for none) with
\* 304 when the tag is that of its document, else with 200 and the document
RemoteAnswer(doc, ifNoneMatch) ==
    IF ifNoneMatch # "" /\ ifNoneMatch = doc.etag
    THEN [status |-> 304, lines |-> <<>>, etag |-> doc.etag]
    ELSE [status |-> 200, lines |-> doc.lines, etag |-> doc.etag]

Prefixes(q) == {SubSeq(q, 1, k) : k \in 0..Len(q)}

\* lines 653 to 667: what the switch makes of the response; body is what
\* io.ReadAll read and readErr its error
fetchSwitch(ce, res, body, readErr) ==
    CASE res.status = 304 -> [lines |-> ce.lines, etag |-> ce.etag, err |-> ""]
      [] res.status = 200 -> [lines |-> body, etag |-> res.etag,
                              err |-> IF readErr THEN "read" ELSE ""]
      [] OTHER -> [lines |-> <<>>, etag |-> "", err |-> "unexpected status"]

\* the call has the response: its locals after the switch
fetcherAnswered(f, res, sw) ==
    fetcher' = [fetcher EXCEPT ![f] =
                   [@ EXCEPT !.pc = "store", !.got = TRUE, !.status = res.status,
                             !.lines = sw.lines, !.etag = sw.etag, !.err = sw.err]]

\* lines 637 to 667: the GET, with If-None-Match when the entry read has an
\* etag.  Do fails, or the server answers, with an error status at times.
fetchDo(f) ==
    /\ fetcher[f].pc = "request"
    /\ \/ fetcher' = [fetcher EXCEPT ![f] =
                         [@ EXCEPT !.pc = "returned", !.ce = ZeroEntry, !.got = TRUE,
                                   !.err = "transport"]]
       \/ \E res \in {RemoteAnswer(remote, fetcher[f].ce.etag),
                      [status |-> 500, lines |-> <<>>, etag |-> ""]} :
             \E body \in Prefixes(res.lines) :
                fetcherAnswered(f, res,
                                fetchSwitch(fetcher[f].ce, res, body, body # res.lines))
    /\ UNCHANGED <<fetchPublicKeysCache, remote>>
    /\ UNCHANGED <<policy, polChanges, now, connVars, srvVars, sessVars>>
    /\ UNCHANGED <<callVars, objVars, ioVars>>

\* the 304 answer is stored without the lines
fetchStoreEntryMutDropsLines(fr, nw) == [lines |-> <<>>, etag |-> fr.etag, at |-> nw]

\* lines 671 to 675: the entry mak.Set stores
fetchStoreEntry(fr, nw) == [lines |-> fr.lines, etag |-> fr.etag, at |-> nw]

\* mak.Set
MapSet(m, k, v) == [u \in DOMAIN m \cup {k} |-> IF u = k THEN v ELSE m[u]]

\* lines 669 to 676, under srv.mu: the entry is stored, lines and err returned
fetchStore(f) ==
    /\ fetcher[f].pc = "store"
    /\ srvMu = NoThread
    /\ fetchPublicKeysCache' =
           MapSet(fetchPublicKeysCache, fetcher[f].url, fetchStoreEntry(fetcher[f], now))
    /\ fetcher' = [fetcher EXCEPT ![f] =
                      [@ EXCEPT !.pc = "returned", !.ce = ZeroEntry, !.etag = ""]]
    /\ UNCHANGED remote
    /\ UNCHANGED <<policy, polChanges, now, connVars, srvVars, sessVars>>
    /\ UNCHANGED <<callVars, objVars, ioVars>>

\* the owner of the URL publishes another key list
remoteChanges ==
    /\ \E doc \in RemoteDocs \ {remote} : remote' = doc
    /\ UNCHANGED <<fetchPublicKeysCache, fetcher>>
    /\ UNCHANGED <<policy, polChanges, now, connVars, srvVars, sessVars>>
    /\ UNCHANGED <<callVars, objVars, ioVars>>

\* the instants of the model, in seconds
Instants == {1000, 1014, 1015, 1059, 1060}

\* time passes
clockAdvances ==
    /\ \E t \in Instants : t > now /\ now' = t
    /\ UNCHANGED <<policy, polChanges, cacheVars, connVars, srvVars, sessVars>>
    /\ UNCHANGED <<callVars, objVars, ioVars>>

\* ------------------------------------------- calls of the policy functions

\* c.evaluatePolicy(pubKey) returns: c.info, the policy, the clock and what
\* fetchPublicKeysURL answers are in the record of the call
evaluatePolicyCall ==
    /\ evalCall.st = "pending"
    /\ evalCall' = [evalCall EXCEPT
                        !.st = "returned",
                        !.res = evaluatePolicy(evalCall.ci, evalCall.pol, evalCall.pubKey,
                                               evalCall.fetch, evalCall.now)]
    /\ UNCHANGED <<ruleCall, mapCall>>
    /\ UNCHANGED <<connVars, envVars, srvVars, sessVars, ioVars, objVars>>

\* c.matchRule(r, pubKey) returns
matchRuleCall ==
    /\ ruleCall.st = "pending"
    /\ ruleCall' = [ruleCall EXCEPT
                        !.st = "returned",
                        !.res = matchRule(ruleCall.ci, ruleCall.r, ruleCall.pubKey,
                                          ruleCall.fetch, ruleCall.now)]
    /\ UNCHANGED <<evalCall, mapCall>>
    /\ UNCHANGED <<connVars, envVars, srvVars, sessVars, ioVars, objVars>>

\* mapLocalUser(ruleSSHUsers, reqSSHUser) returns
mapLocalUserCall ==
    /\ mapCall.st = "pending"
    /\ mapCall' = [mapCall EXCEPT
                       !.st = "returned",
                       !.localUser = mapLocalUser(mapCall.ruleSSHUsers, mapCall.reqSSHUser)]
    /\ UNCHANGED <<evalCall, ruleCall>>
    /\ UNCHANGED <<connVars, envVars, srvVars, sessVars, ioVars, objVars>>

\* ------------------------------------------------------------ specifications

NoProc == [st |-> "none", code |-> 0]

\* the context of every connection the model does not vary
PlainCtx == [user |-> Alice, src |-> OverlayIP1, dst |-> OverlayIP2]

\* a server just made, with the policy and the contexts given, but for the
\* clock and the key cache
InitBut(pol, cxs) ==
    /\ conn = [c \in Conns |-> NewConn]
    /\ ctx = cxs
    /\ authed = [c \in Conns |-> FALSE]
    /\ tries = [c \in Conns |-> 0]
    /\ prevErr = [c \in Conns |-> ""]
    /\ everAuthorized = [c \in Conns |-> FALSE]
    /\ lastCall = [c \in Conns |-> NoCall]
    /\ authorizer = [c \in Conns |-> NilAction]
    /\ forward = [c \in Conns |-> "none"]
    /\ policy = pol
    /\ polChanges = 0
    /\ connPc = [c \in Conns |-> "idle"]
    /\ activeConns = {}
    /\ shutdownCalled = FALSE
    /\ srvMu = NoThread
    /\ cMu = [c \in Conns |-> NoThread]
    /\ sessions = [c \in Conns |-> <<>>]
    /\ wg = 0
    /\ shutPc = "idle"
    /\ opcPc = "idle"
    /\ chkPc = [c \in Conns |-> "idle"]
    /\ closed = [c \in Conns |-> FALSE]
    /\ ssPc = [s \in Sess |-> "none"]
    /\ ssConn = [s \in Sess |-> 1]
    /\ ssCtx = [s \in Sess |-> OpenCtx]
    /\ proc = [s \in Sess |-> NoProc]
    /\ killer = [s \in Sess |-> "none"]
    /\ exitOnce = [s \in Sess |-> "fresh"]
    /\ kills = [s \in Sess |-> 0]
    /\ exitCode = [s \in Sess |-> -2]
    /\ timer = [s \in Sess |-> "none"]
    /\ setup = [s \in Sess |-> NoSetup]
    /\ pumps = [s \in Sess |-> NoPumps]
    /\ openOutputStreams = [s \in Sess |-> 0]
    /\ closeWrites = [s \in Sess |-> 0]
    /\ rec = [s \in Sess |-> "nil"]
    /\ cast = [s \in Sess |-> <<>>]
    /\ toChild = [s \in Sess |-> <<>>]
    /\ toClient = [s \in Sess |-> <<>>]
    /\ termLog = [s \in Sess |-> <<>>]
    /\ recMu = [s \in Sess |-> NoRecCaller]
    /\ recPc = [s \in Sess |-> [t \in RecCallers |-> IdleRecCall]]
    /\ outCloses = [s \in Sess |-> 0]
    /\ fsa = IdleFetch
    /\ fsaCtx = "live"
    /\ delegate = "down"
    /\ agent = [s \in Sess |-> NoAgent]

\* a server just made: the clock at 1, nothing cached
InitWith(pol, cxs) ==
    /\ InitBut(pol, cxs)
    /\ evalCall = NoEvalCall
    /\ ruleCall = NoRuleCall
    /\ mapCall = NoMapCall
    /\ now = 1
    /\ fetchPublicKeysCache = EmptyCache
    /\ remote = RemoteDocs1
    /\ fetcher = [f \in Fetchers |-> IdleFetcher]

\* a run without pty, agent forwarding or recording, where only launchProcess
\* may fail
PlainSetups ==
    {su \in Setups : su.euidOK /\ su.agent = "none" /\ ~su.pty /\ ~su.record /\ su.recordingOK}

\* The handshake of one connection, whatever its context and the policy, and
\* the start of its sessions.
CtxChoices == [user : CtxUsers, src : {OverlayIP1, OverlayIP2, PlainIP}, dst : {OverlayIP2, PlainIP}]

InitAuth ==
    \E pol \in Policies, cx \in CtxChoices :
        InitWith(pol, [c \in Conns |-> IF c = 1 THEN cx ELSE PlainCtx])

NextAuth ==
    \/ newConn(1)
    \/ trackActiveConnAdd(1)
    \/ NoClientAuthCallback(1, Envs)
    \/ PublicKeyHandler(1, Envs)
    \/ PasswordCallback(1)
    \/ LocalPortForwardingCallback(1)
    \/ Tick
    \/ handleSessionPostSSHAuth(1, 1)
    \/ attachLock(1)
    \/ attachCheck(1)
    \/ attachConnLock(1)
    \/ attachAppend(1)
    \/ setupAndLaunch(1, PlainSetups)

SpecAuth == InitAuth /\ [][NextAuth]_vars

\* the steps of HandleSSHConn but the handshake
connSteps(c) ==
    \/ newConn(c)
    \/ trackActiveConnAdd(c)
    \/ HandleConnReturns(c)
    \/ trackActiveConnRemove(c)

\* the steps of sshSession.run once attached, and of its
\* killProcessOnContextDone goroutine
attachedStepsWith(s, setups) ==
    \/ attachLock(s)
    \/ attachCheck(s)
    \/ attachConnLock(s)
    \/ attachAppend(s)
    \/ setupAndLaunch(s, setups)
    \/ processExits(s)
    \/ cmdWaitReturns(s)
    \/ runExitOnce(s)
    \/ killerWakes(s)
    \/ killerKills(s)
    \/ detachLock(s)
    \/ detachRemove(s)
    \/ detachDone(s)
    \/ runReturns(s)

attachedSteps(s) == attachedStepsWith(s, PlainSetups)

sessionSteps(s) == attachedSteps(s) \/ refusedExit(s)

\* the steps of a checkStillValid goroutine
checkStillValidSteps(c) ==
    \/ checkStillValidEval(c)
    \/ checkStillValidCacheLock(c)
    \/ checkStillValidCacheUnlock(c)
    \/ checkStillValidLock(c)
    \/ checkStillValidClose(c)

Shutdown == ShutdownLock \/ ShutdownFence \/ ShutdownReturns

\* The server: connections come and go, the sessions of connection 1 attach
\* and detach, Shutdown is called at any time.
InitSrv == InitWith(PolAcceptLogin, [c \in Conns |-> PlainCtx])

NextSrv ==
    \/ \E c \in Conns : connSteps(c)
    \/ NoClientAuthCallback(1, QuietEnvs)
    \/ \E s \in Sess : handleSessionPostSSHAuth(1, s) \/ sessionSteps(s)
    \/ Shutdown

SpecSrv == InitSrv /\ [][NextSrv]_vars

\* a connection authenticated by public key, and the policies that follow
InitKeys == InitWith(PolKeys, [c \in Conns |-> PlainCtx])

NextPolicies == {PolURL, PolHold, PolReject}

\* The two locks: one connection with a session, the policy changing, the
\* re-check, Shutdown.
NextLocks ==
    \/ connSteps(1)
    \/ NoClientAuthCallback(1, QuietEnvs)
    \/ PublicKeyHandler(1, QuietEnvs)
    \/ handleSessionPostSSHAuth(1, 1)
    \/ sessionSteps(1)
    \/ SetPolicy(NextPolicies)
    \/ OnPolicyChange
    \/ checkStillValidSteps(1)
    \/ Shutdown

SpecLocks == InitKeys /\ [][NextLocks]_vars

\* One session and everything that cancels its context: the timer of the
\* session duration, a copy error, the re-check after a policy change, the
\* client going away, Shutdown, run itself.
SessPolicies == {PolReject, PolAcceptLogin}

NextSess ==
    \/ connSteps(1)
    \/ NoClientAuthCallback(1, QuietEnvs)
    \/ PublicKeyHandler(1, QuietEnvs)
    \/ handleSessionPostSSHAuth(1, 1)
    \/ sessionSteps(1)
    \/ timerFires(1)
    \/ timerRuns(1)
    \/ pumpError(1)
    \/ SetPolicy(SessPolicies)
    \/ OnPolicyChange
    \/ checkStillValidEval(1)
    \/ checkStillValidLock(1)
    \/ checkStillValidClose(1)
    \/ Shutdown

SpecSess == InitKeys /\ [][NextSess]_vars

\* The re-check after a policy change, with the sessions of one connection.
\* The goroutines that are ready to run do run.
NextRevoke ==
    \/ newConn(1)
    \/ trackActiveConnAdd(1)
    \/ NoClientAuthCallback(1, QuietEnvs)
    \/ PublicKeyHandler(1, QuietEnvs)
    \/ \E s \in Sess : handleSessionPostSSHAuth(1, s) \/ attachedSteps(s)
    \/ SetPolicy(NextPolicies)
    \/ OnPolicyChange
    \/ checkStillValidSteps(1)

SpecRevoke ==
    /\ InitKeys
    /\ [][NextRevoke]_vars
    /\ \A s \in Sess : WF_vars(killerWakes(s)) /\ WF_vars(killerKills(s))

\* The sessions of one connection, whatever the host does to the set-up of
\* the first one.
NextSetup ==
    \/ newConn(1)
    \/ trackActiveConnAdd(1)
    \/ NoClientAuthCallback(1, QuietEnvs)
    \/ \E s \in Sess :
          \/ handleSessionPostSSHAuth(1, s)
          \/ attachedStepsWith(s, IF s = 1 THEN HostSetups ELSE PlainSetups)
          \/ pumpError(s)

\* the policy lets the sessions forward the agent
InitSetup == InitWith(PolAcceptAgent, [c \in Conns |-> PlainCtx])

SpecSetup == InitSetup /\ [][NextSetup]_vars

\* One session and its copy goroutines, recorded or not.
NextCopy ==
    \/ newConn(1)
    \/ trackActiveConnAdd(1)
    \/ NoClientAuthCallback(1, QuietEnvs)
    \/ handleSessionPostSSHAuth(1, 1)
    \/ attachedStepsWith(1, HostSetups)
    \/ copySteps(1)

SpecCopy == InitSrv /\ [][NextCopy]_vars

\* a run that records
RecordedSetups ==
    {su \in Setups : su.euidOK /\ su.agent = "none" /\ su.pty /\ su.record /\ su.recordingOK}

\* One recorded session and the callers of its recording: the writers of the
\* two copies, Close called by run and by anyone else.
NextRec ==
    \/ newConn(1)
    \/ trackActiveConnAdd(1)
    \/ NoClientAuthCallback(1, QuietEnvs)
    \/ handleSessionPostSSHAuth(1, 1)
    \/ attachedStepsWith(1, RecordedSetups)
    \/ pumpError(1)
    \/ recordingSteps(1)

SpecRec == InitSrv /\ [][NextRec]_vars

\* One call of fetchSSHAction, whatever the delegate answers and whenever the
\* context ends; the loop goes on when it can.
NextFetch ==
    \/ fetchSSHActionCall
    \/ fetchSSHActionCheck
    \/ fetchSSHActionDo
    \/ fetchSSHActionBackOff
    \/ fetchContextDone
    \/ delegateRecovers

SpecFetch ==
    /\ InitSrv
    /\ [][NextFetch]_vars
    /\ WF_vars(fetchSSHActionCheck) /\ WF_vars(fetchSSHActionDo)
    /\ WF_vars(fetchSSHActionBackOff)

\* The sessions of one connection under a policy with a session duration, or
\* without one; a goroutine that can run does run in the end.
InitTimer ==
    \E pol \in {PolKeys, PolAcceptLogin} : InitWith(pol, [c \in Conns |-> PlainCtx])

NextTimer ==
    \/ newConn(1)
    \/ trackActiveConnAdd(1)
    \/ NoClientAuthCallback(1, QuietEnvs)
    \/ PublicKeyHandler(1, QuietEnvs)
    \/ \E s \in Sess :
          \/ handleSessionPostSSHAuth(1, s)
          \/ attachedStepsWith(s, PlainSetups)
          \/ timerFires(s)
          \/ timerRuns(s)

SpecTimer ==
    /\ InitTimer
    /\ [][NextTimer]_vars
    /\ \A s \in Sess : WF_vars(killerWakes(s)) /\ WF_vars(killerKills(s))

\* The key cache: calls of fetchPublicKeysURL for one URL, the clock and the
\* remote document changing in between.  The cache starts with the entries
\* of earlier fetches: fillers of two ages, and for the URL no entry, a fresh
\* one or an old one.
FillerEntry(k) ==
    [lines |-> <<Line2>>, etag |-> "", at |-> IF k % 2 = 1 THEN 100 ELSE 990]

FillerCounts == {0, 50, 51}

TargetEntries ==
    {[lines |-> <<Line1>>, etag |-> "v1", at |-> 1000],
     [lines |-> <<>>, etag |-> "", at |-> 1000],
     [lines |-> <<Line2>>, etag |-> "v2", at |-> 100]}

Fillers(n) == [u \in {HTTPSURL(k) : k \in 1..n} |-> FillerEntry(u.account)]

InitCache ==
    /\ InitBut(NoPolicy, [c \in Conns |-> PlainCtx])
    /\ now = 1000
    /\ \E n \in FillerCounts :
          \/ fetchPublicKeysCache = Fillers(n)
          \/ \E e \in TargetEntries : fetchPublicKeysCache = MapSet(Fillers(n), TargetURL, e)
    /\ remote \in RemoteDocs
    /\ fetcher = [f \in Fetchers |-> IdleFetcher]
    /\ evalCall = NoEvalCall
    /\ ruleCall = NoRuleCall
    /\ mapCall = NoMapCall

NextCache ==
    \/ \E f \in Fetchers :
          \/ fetchPublicKeysURLCall(f)
          \/ fetchLookup(f)
          \/ fetchDo(f)
          \/ fetchStore(f)
    \/ remoteChanges
    \/ clockAdvances

SpecCache == InitCache /\ [][NextCache]_vars

\* The policy functions called on their own: every policy of at most
\* MaxRules rules drawn from a set with a nil rule, a rule without action, a
\* rule that expires, rules with a nil principal and with two principals in
\* both orders.
PrincipalLogin == MkPrincipal(FALSE, "", "", "alice@ex.com", <<>>)
PrincipalURL == MkPrincipal(TRUE, "", "", "", <<KeysURL>>)
PrincipalKey1 == MkPrincipal(TRUE, "", "", "", <<Line1>>)
NilPrincipal == [PrincipalLogin EXCEPT !.nil = TRUE]

RuleURLThenLogin == MkRule(AnyUser, <<PrincipalURL, PrincipalLogin>>, ActAccept, 0)
RuleLoginThenURL == MkRule(AnyUser, <<PrincipalLogin, PrincipalURL>>, ActAccept, 0)
RuleNilPrincipal == MkRule(AnyUser, <<NilPrincipal, PrincipalKey1>>, ActAcceptFwd, 0)
RuleNoAction == MkRule(AnyUser, <<PrincipalLogin>>, NilAction, 0)
RuleNil == [RuleAcceptLogin EXCEPT !.nil = TRUE]
RuleRejectLogin == MkRule(ToRoot, <<PrincipalLogin>>, ActReject, 0)

EvalRules ==
    {RuleAcceptLogin, RuleRejectAny, RuleRejectLogin, RuleKey1Accept, RuleHoldAny,
     RuleExpiring, RuleURLThenLogin, RuleLoginThenURL, RuleNilPrincipal, RuleNoAction,
     RuleNil}

EvalPolicies == {NoPolicy} \cup {MkPolicy(rules) : rules \in SeqsUpTo(EvalRules, MaxRules)}

\* c.info: nil, or the peer n1 of alice@ex.com asking for alice or for bob,
\* or another peer asking for alice
EvalInfos ==
    {NoInfo,
     [nil |-> FALSE, sshUser |-> Alice, src |-> OverlayIP1, dst |-> OverlayIP2,
      node |-> "n1", login |-> "alice@ex.com"],
     [nil |-> FALSE, sshUser |-> Bob, src |-> OverlayIP1, dst |-> OverlayIP2,
      node |-> "n1", login |-> "alice@ex.com"],
     [nil |-> FALSE, sshUser |-> Alice, src |-> OverlayIP2, dst |-> OverlayIP1,
      node |-> "n2", login |-> "bob@ex.com"]}

EvalCalls ==
    [st : {"pending"}, ci : EvalInfos \ {NoInfo}, pol : EvalPolicies,
     pubKey : {NoKey} \cup ClientKeys, fetch : KeyFetches, now : 1..MaxNow, res : {NoMatch}]

RuleCalls ==
    [st : {"pending"}, ci : EvalInfos, r : EvalRules,
     pubKey : {NoKey} \cup ClientKeys, fetch : KeyFetches, now : 1..MaxNow, res : {NoMatch}]

\* the maps SSHUsers over the keys alice and "*"
UserMaps ==
    UNION {[keys -> {Same, Empty, Root, Alice}] : keys \in SUBSET {Alice, Star}}

MapCalls ==
    [st : {"pending"}, ruleSSHUsers : UserMaps, reqSSHUser : {Alice, Bob, Empty, Same},
     localUser : {Empty}]

InitPolicy ==
    /\ InitBut(NoPolicy, [c \in Conns |-> PlainCtx])
    /\ now = 1
    /\ fetchPublicKeysCache = EmptyCache
    /\ remote = RemoteDocs1
    /\ fetcher = [f \in Fetchers |-> IdleFetcher]
    /\ \/ evalCall \in EvalCalls /\ ruleCall = NoRuleCall /\ mapCall = NoMapCall
       \/ evalCall = NoEvalCall /\ ruleCall \in RuleCalls /\ mapCall = NoMapCall
       \/ evalCall = NoEvalCall /\ ruleCall = NoRuleCall /\ mapCall \in MapCalls

NextPolicy == evaluatePolicyCall \/ matchRuleCall \/ mapLocalUserCall

SpecPolicy == InitPolicy /\ [][NextPolicy]_vars

\* ------------------------------------------------- the handshake: C1 to C3

\* the sessions that sshSession.run was called for
Started == {s \in Sess : ssPc[s] \notin {"none"}}

C2_FinalActionNeverReassigned ==
    [][\A c \in Conns :
          ~conn[c].finalAction.nil => conn'[c].finalAction = conn[c].finalAction]_vars

\* C3: conn.finalAction is nil or an action with Accept or Reject
C3_FinalActionIsTerminal ==
    \A c \in Conns :
        conn[c].finalAction.nil \/ conn[c].finalAction.Accept \/ conn[c].finalAction.Reject

\* C3, its case: the delegate has answered with a HoldAndDelegate and then with
\* an action that lacks Accept, Reject and HoldAndDelegate; nothing is final
C3_Witness ==
    \E c \in Conns :
        /\ conn[c].action0.HoldAndDelegate # ""
        /\ conn[c].currentAction = ActMalformed
        /\ conn[c].finalAction.nil
        /\ tries[c] > 0

\* ---------------------------------------------------- the server: C4 to C7

\* the sessions between sessionWaitGroup.Add(1) and sessionWaitGroup.Done()
Counted == {s \in Sess : ssPc[s] \in {"attConn", "attAppend", "attached", "wait", "once",
                                      "detach", "detRemove", "detDone"}}

\* C4: a session is appended to conn.sessions and the wait group incremented
\* only while the fence is unset and the session's thread holds srv.mu; with
\* the fence set nothing is attached, and a session that finds the fence set
\* ends with exit status 1, never attached and without a process.
C4_AttachOnlyBeforeFence ==
    /\ [][\A c \in Conns :
            Len(sessions'[c]) > Len(sessions[c]) =>
                /\ ~shutdownCalled /\ ~shutdownCalled'
                /\ \E s \in Sess : /\ sessions'[c] = Append(sessions[c], s)
                                   /\ srvMu = SessThread(s)]_vars
    /\ [][wg' > wg => ~shutdownCalled /\ \E s \in Sess : srvMu = SessThread(s)]_vars
    /\ [][\A s \in Sess :
            ssPc[s] = "attCheck" /\ shutdownCalled /\ ssPc'[s] # ssPc[s] =>
                ssPc'[s] = "refused" /\ wg' = wg]_vars
    /\ [](\A s \in Sess :
            ssPc[s] \in {"refused", "refusedEnd"} =>
                /\ \A c \in Conns : ~InSeq(s, sessions[c])
                /\ proc[s] = NoProc /\ killer[s] = "none"
                /\ ssPc[s] = "refusedEnd" => exitCode[s] = 1)

\* C4, its case: after the fence one session was refused and has exited with
\* status 1 while another, attached before the fence, is still attached
C4_Witness ==
    /\ shutdownCalled
    /\ \E s, t \in Sess :
          /\ ssPc[s] = "refusedEnd" /\ exitCode[s] = 1
          /\ InSeq(t, sessions[ssConn[t]])

\* C5: with the fence set, no connection is added to srv.activeConns
C5_NoConnAddedAfterFence ==
    [][shutdownCalled => activeConns' \subseteq activeConns]_vars

\* C6: the wait-group count is the number of sessions between their attach and
\* their detach, never negative; the sessions of conn.sessions are among them,
\* each once; and once Shutdown has returned the count is zero and no
\* connection has a session.
C6_WaitGroupBalanced ==
    /\ wg = Cardinality(Counted)
    /\ \A c \in Conns :
          /\ \A i \in 1..Len(sessions[c]) : sessions[c][i] \in Counted
          /\ \A i, j \in 1..Len(sessions[c]) : sessions[c][i] = sessions[c][j] => i = j
    /\ shutPc = "returned" => wg = 0 /\ \A c \in Conns : sessions[c] = <<>>

\* C6, its case: Shutdown has returned after a session it found running was
\* killed and detached and another was refused
C6_Witness ==
    /\ shutPc = "returned"
    /\ \E s, t \in Sess :
          /\ ssPc[s] \in {"closing", "ended"} /\ kills[s] = 1
          /\ ssPc[t] = "refusedEnd"

\* the thread waits for srv.mu
WaitsForSrvMu(t) ==
    \/ \E s \in Sess : t = SessThread(s) /\ ssPc[s] = "run"
    \/ \E c \in Conns : /\ t = ChkThread(c) /\ chkPc[c] = "eval"
                        /\ EvaluationFetches(conn[c], policy, now)
    \/ \E c \in Conns : t = ConnThread(c) /\ connPc[c] \in {"idle", "created", "untrack"}
    \/ t = ShutdownThread /\ shutPc = "idle"
    \/ t = PolicyThread /\ opcPc = "pending"

\* the thread waits for the mu of connection c
WaitsForConnMu(t, c) ==
    \/ \E s \in Sess : t = SessThread(s) /\ ssConn[s] = c /\ ssPc[s] \in {"attConn", "detach"}
    \/ t = ChkThread(c) /\ chkPc[c] = "revoke"

\* C7: no thread takes srv.mu while it holds a conn.mu; the holder of a
\* conn.mu waits for no lock, so no threads wait for each other in a cycle
C7_LockOrder ==
    /\ [][srvMu' # srvMu /\ srvMu' # NoThread => \A c \in Conns : cMu[c] # srvMu']_vars
    /\ [](\A c \in Conns :
            cMu[c] # NoThread =>
                /\ ~WaitsForSrvMu(cMu[c])
                /\ \A d \in Conns : ~WaitsForConnMu(cMu[c], d))

\* C7, its case: a session holds srv.mu and waits for the conn.mu that the
\* re-check of the connection holds
C7_Witness ==
    \E s \in Sess :
        /\ srvMu = SessThread(s) /\ WaitsForConnMu(SessThread(s), ssConn[s])
        /\ cMu[ssConn[s]] = ChkThread(ssConn[s])

\* --------------------------------------------------- a session: C8 to C10

\* C8: Process.Kill is called at most once for a session
C8_KillAtMostOnce == \A s \in Sess : kills[s] <= 1

\* C8, its case: the process of a session was killed once, although its
\* context was cancelled by the policy re-check and its timer fired as well,
\* and run has closed the context itself
C8_Witness ==
    \E s \in Sess :
        /\ kills[s] = 1 /\ proc[s].st = "killed"
        /\ ssCtx[s].cause = AccessRevoked /\ timer[s] = "fired"
        /\ ssPc[s] = "ended"

\* cmd.Wait has returned in run
Waited(s) == ssPc[s] \in {"once", "detach", "detRemove", "detDone", "closing", "ended"}

\* C9: once the process has exited by itself and cmd.Wait has returned,
\* Process.Kill is not called for the session
C9_NoKillAfterWait ==
    [][\A s \in Sess :
          Waited(s) /\ proc[s].st = "exited" => kills'[s] = kills[s]]_vars

\* the three ways isStillValid finds connection c invalid, for the key list f
NoLongerValid(c, f) ==
    LET ev == evaluatePolicy(conn[c].info, policy, conn[c].pubKey, f, now)
    IN \/ ~ev.ok
       \/ ~ev.action.Accept /\ ev.action.HoldAndDelegate = ""
       \/ ev.localUser # conn[c].localUser

\* the re-check of connection c decides in this step
Decides(c) == chkPc[c] \in {"eval", "cache"} /\ chkPc'[c] \notin {"eval", "cache"}

Revoked(s) == ssCtx[s].done /\ ssCtx[s].cause = AccessRevoked

\* C10: the re-check goes on to revoke exactly when the connection is no
\* longer valid; it then closes the context of every session of
\* conn.sessions, with the cause "Access revoked." when the context was still
\* open, and a revoked session whose process runs has it ended in the end; a
\* re-check that finds the connection valid closes no context.  A re-check
\* that does neither is one of a connection without local user, which has no
\* session.
C10_RecheckRevokes ==
    /\ [][\A c \in Conns :
            /\ Decides(c) /\ chkPc'[c] = "revoke" =>
                  \E f \in KeyFetches : NoLongerValid(c, f)
            /\ Decides(c) /\ chkPc'[c] = "idle" =>
                  /\ \E f \in KeyFetches : ~NoLongerValid(c, f)
                  /\ ssCtx' = ssCtx
            /\ Decides(c) /\ chkPc'[c] \notin {"revoke", "idle"} =>
                  /\ conn[c].localUser = Empty /\ sessions[c] = <<>>
                  /\ ssCtx' = ssCtx
            /\ chkPc[c] = "closing" /\ chkPc'[c] # "closing" =>
                  \A s \in Sess :
                      InSeq(s, sessions[c]) =>
                          /\ ssCtx'[s].done
                          /\ ~ssCtx[s].done => ssCtx'[s].cause = AccessRevoked]_vars
    /\ \A s \in Sess : (Revoked(s) /\ proc[s].st = "running") ~> (proc[s].st # "running")

\* C10, its case: every session of the connection was revoked while its
\* process ran, and the process was killed
C10_Witness ==
    \A s \in Sess : Revoked(s) /\ proc[s].st = "killed" /\ kills[s] = 1

\* ------------------------------------------------ the key cache: C11 to C14

\* the call of fetcher f returns in this step
FetchReturns(f) == fetcher[f].pc # "returned" /\ fetcher'[f].pc = "returned"

\* the entry of the URL of fetcher f, before and after the step, is the same
EntryUnchanged(f) ==
    LET url == fetcher[f].url
    IN /\ url \in DOMAIN fetchPublicKeysCache <=> url \in DOMAIN fetchPublicKeysCache'
       /\ url \in DOMAIN fetchPublicKeysCache =>
              fetchPublicKeysCache'[url] = fetchPublicKeysCache[url]

\* C11: a call of fetchPublicKeysURL that returns a list without having made
\* a GET found an entry for the URL whose age was under 60 seconds, under 15
\* when its list is empty, and returns the list of that entry; every other
\* call that returns a list has made the GET; a URL that is not https gets
\* an error and no list.
C11_CachedOnlyWhenFresh ==
    [][\A f \in Fetchers :
          FetchReturns(f) =>
              /\ fetcher'[f].err = "" /\ ~fetcher'[f].got =>
                    /\ fetcher[f].url \in DOMAIN fetchPublicKeysCache
                    /\ LET e == fetchPublicKeysCache[fetcher[f].url]
                       IN /\ Len(e.lines) > 0 => now - e.at < 60
                          /\ Len(e.lines) = 0 => now - e.at < 15
                          /\ fetcher'[f].lines = e.lines
              /\ ~HasPrefixHTTPS(fetcher'[f].url) =>
                    fetcher'[f].err # "" /\ fetcher'[f].lines = <<>> /\ ~fetcher'[f].got]_vars

\* C11, its case: 59 seconds after the entry was stored one call has returned
\* its list without a GET, and another call has returned a list it fetched
C11_Witness ==
    /\ TargetURL \in DOMAIN fetchPublicKeysCache
    /\ now - fetchPublicKeysCache[TargetURL].at = 59
    /\ \E f, g \in Fetchers :
          /\ fetcher[f].pc = "returned" /\ ~fetcher[f].got /\ fetcher[f].err = ""
          /\ fetcher[f].lines = fetchPublicKeysCache[TargetURL].lines
          /\ fetcher[f].lines # <<>>
          /\ fetcher[g].pc = "returned" /\ fetcher[g].got /\ fetcher[g].err = ""

\* the fetch of the call failed: Do returned an error, or the status was
\* neither 200 nor 304
FetchFailed(fr) == fr.got /\ (fr.err = "transport" \/ fr.status \notin {0, 200, 304})

\* C12: a call whose fetch fails returns an error and leaves the entry of the
\* URL as it was
C12_FailedFetchKeepsEntry ==
    [][\A f \in Fetchers :
          FetchReturns(f) /\ FetchFailed(fetcher'[f]) =>
              fetcher'[f].err # "" /\ EntryUnchanged(f)]_vars

C14_PruneOnlyOld ==
    [][\A f \in Fetchers :
          fetcher[f].pc = "lookup" /\ fetcher'[f].pc # "lookup" =>
              IF Cardinality(DOMAIN fetchPublicKeysCache) > 50
              THEN /\ DOMAIN fetchPublicKeysCache' =
                         {u \in DOMAIN fetchPublicKeysCache :
                             now - fetchPublicKeysCache[u].at <= 600}
                   /\ \A u \in DOMAIN fetchPublicKeysCache' :
                         fetchPublicKeysCache'[u] = fetchPublicKeysCache[u]
              ELSE fetchPublicKeysCache' = fetchPublicKeysCache]_vars

\* ------------------------------------------------ the handshake: C15 to C20

IsHold(a) == ~a.Accept /\ ~a.Reject /\ a.HoldAndDelegate # ""

\* the callback called isAuthorized
CalledIsAuthorized(call) == call.cb \in {"none", "publickey"} /\ call.dErr = ""

\* the callback's isAuthorized called resolveNextAction
Resolves(call) == CalledIsAuthorized(call) /\ IsHold(call.c0.currentAction)

\* a callback of connection c returns in this step
CallbackStep(c) == tries'[c] # tries[c] \/ authed'[c] # authed[c]

\* C15: on a conn whose finalAction is set, resolveNextAction returns
\* finalAction, asks the delegate nothing and leaves the conn as it is; so an
\* isAuthorized call that resolves on such a conn makes no request, changes
\* no field, and succeeds exactly when that action is Accept.
C15_ResolveAfterTerminal ==
    /\ [](\A c \in Conns :
            ~lastCall[c].c0.finalAction.nil =>
                \A answer \in FetchAnswers :
                    resolveNextAction(lastCall[c].c0, answer) =
                        [c |-> lastCall[c].c0, action |-> lastCall[c].c0.finalAction,
                         err |-> lastCall[c].c0.finalActionErr, fetched |-> FALSE])
    /\ [][\A c \in Conns :
            /\ CallbackStep(c) /\ Resolves(lastCall'[c])
            /\ ~lastCall'[c].c0.finalAction.nil
            => /\ lastCall'[c].answers = <<>>
               /\ [conn'[c] EXCEPT !.anyPasswordIsOkay = lastCall'[c].c0.anyPasswordIsOkay]
                      = lastCall'[c].c0
               /\ (/\ lastCall'[c].c0.finalActionErr = ""
                   /\ lastCall'[c].bannerOK \/ lastCall'[c].c0.finalAction.Message = "")
                  => (lastCall'[c].authorized <=> lastCall'[c].c0.finalAction.Accept)]_vars

\* C15, its case: the delegate had answered an earlier attempt with Reject,
\* and a later attempt, held again by the policy, was denied with no request
C15_Witness ==
    \E c \in Conns :
        /\ policy = PolHold
        /\ Resolves(lastCall[c])
        /\ lastCall[c].c0.finalAction = ActReject
        /\ lastCall[c].answers = <<>> /\ lastCall[c].err = "denied"
        /\ conn[c] = lastCall[c].c0

\* the actions an isAuthorized call examined, or the error that came in the
\* place of one: currentAction, then what resolveNextAction returned
Examined(call) ==
    <<[err |-> FALSE, action |-> call.c0.currentAction]>> \o
    (IF ~IsHold(call.c0.currentAction) THEN <<>>
     ELSE IF ~call.c0.finalAction.nil \/ call.c0.finalActionErr # ""
     THEN <<[err |-> call.c0.finalActionErr # "",
             action |-> IF call.c0.finalActionErr # "" THEN NilAction
                        ELSE call.c0.finalAction]>>
     ELSE call.answers)

\* what isAuthorized returned
AuthErr(call) == IF call.authorized THEN "" ELSE call.err

NonEmptyString(m) == m # ""

\* the banner of the last action examined could be sent, or there was none
LastSendOK(call, E) ==
    call.bannerOK \/ Len(E) = 1 \/ E[Len(E)].action.Message = ""

\* the messages of the actions that resolveNextAction returned, in order
FetchedMessages(E) == [k \in 1..(Len(E) - 1) |-> E[k + 1].action.Message]

ChainLaw(call, E) ==
    /\ \A j \in 1..(Len(E) - 1) : IsHold(E[j].action) /\ ~E[j].err
    /\ call.authorized <=>
           ~E[Len(E)].err /\ E[Len(E)].action.Accept /\ LastSendOK(call, E)
    /\ E[Len(E)].err =>
           AuthErr(call) = (IF call.c0.finalActionErr # "" THEN call.c0.finalActionErr
                            ELSE "fetching SSHAction")
    /\ ~E[Len(E)].err /\ ~LastSendOK(call, E) => AuthErr(call) = "SendBanner"
    /\ ~E[Len(E)].err /\ LastSendOK(call, E) /\ ~E[Len(E)].action.Accept =>
           /\ AuthErr(call) = "denied"
           /\ E[Len(E)].action.Reject \/ E[Len(E)].action.HoldAndDelegate = ""
    /\ call.banners =
           SelectSeq(IF LastSendOK(call, E) THEN FetchedMessages(E)
                     ELSE SubSeq(FetchedMessages(E), 1, Len(E) - 2),
                     NonEmptyString)

\* C16: isAuthorized examines currentAction and then each action that
\* resolveNextAction returns; all but the last are HoldAndDelegate actions;
\* it returns nil iff the last is an Accept, denied when the last is a Reject
\* or has no HoldAndDelegate, the error of resolveNextAction when that
\* failed; and it has sent as banners the non-empty messages of the actions
\* resolveNextAction returned, in order.
C16_IsAuthorizedWalksChain ==
    \A c \in Conns :
        CalledIsAuthorized(lastCall[c]) => ChainLaw(lastCall[c], Examined(lastCall[c]))

\* C16, its case: the policy held the connection, the delegate answered with
\* another HoldAndDelegate and then with an Accept; both messages were sent
C16_Witness ==
    \E c \in Conns :
        /\ CalledIsAuthorized(lastCall[c]) /\ lastCall[c].authorized
        /\ Len(lastCall[c].answers) = 2
        /\ lastCall[c].answers[1].action = ActHold
        /\ lastCall[c].banners = <<"visit the link", "welcome">>

\* setInfo succeeded and the policy evaluation of a callback without a key
\* found no match (no key list is fetched for it)
PolicyNoMatch(call) ==
    /\ ~call.c0.info.nil
    /\ ~evaluatePolicy(call.c0.info, policy, NoKey, [err |-> FALSE, lines |-> <<>>],
                       call.now).ok

\* some rule has a principal with pub_keys whose identity predicate matches
SomePubKeyPrincipal(ci, pol) ==
    /\ ~pol.nil
    /\ \E i \in 1..Len(pol.Rules) : \E j \in 1..Len(pol.Rules[i].Principals) :
          /\ Len(pol.Rules[i].Principals[j].PubKeys) > 0
          /\ principalMatchesTailscaleIdentity(ci, pol.Rules[i].Principals[j])

\* some rule that has not expired and maps the requested user to a local user
\* has such a principal
SomeUsablePubKeyPrincipal(ci, pol, nw) ==
    /\ ~pol.nil
    /\ \E i \in 1..Len(pol.Rules) :
          /\ pol.Rules[i].RuleExpires = 0 \/ pol.Rules[i].RuleExpires >= nw
          /\ mapLocalUser(pol.Rules[i].SSHUsers, ci.sshUser) # Empty
          /\ \E j \in 1..Len(pol.Rules[i].Principals) :
                /\ Len(pol.Rules[i].Principals[j].PubKeys) > 0
                /\ principalMatchesTailscaleIdentity(ci, pol.Rules[i].Principals[j])

C18_PasswordOnlyAfterNoneAuth ==
    /\ [][\A c \in Conns :
            /\ CallbackStep(c) /\ lastCall'[c].cb = "password" =>
                  (lastCall'[c].err = "" <=> conn[c].anyPasswordIsOkay)
            /\ ~conn[c].anyPasswordIsOkay /\ conn'[c].anyPasswordIsOkay =>
                  /\ lastCall'[c].cb = "none"
                  /\ HasPasswordSuffix(ctx[c].user)
                  /\ lastCall'[c].dErr = "" /\ lastCall'[c].authorized
                  /\ ~conn'[c].info.nil
                  /\ ~HasPasswordSuffix(conn'[c].info.sshUser)
                  /\ conn'[c].info.sshUser \o <<forcePasswordSuffix>> = ctx[c].user
                  /\ lastCall'[c].next = <<"password", "tailscale">>]_vars
    /\ [](\A c \in Conns :
            lastCall[c].cb = "password" /\ lastCall[c].err = "" => everAuthorized[c])

\* C18, its case: a password completed the handshake of a +password user
C18_Witness ==
    \E c \in Conns :
        /\ authed[c] /\ lastCall[c].cb = "password" /\ lastCall[c].err = ""
        /\ HasPasswordSuffix(ctx[c].user) /\ conn[c].info.sshUser = Alice

\* C19: the methods offered after a failed attempt are password and
\* tailscale when anyPasswordIsOkay is set, else publickey and tailscale
\* when the attempt failed with the public-key-required sentinel, else
\* tailscale alone; every failure gets such a list.
C19_NextAuthMethods ==
    \A c \in Conns :
        /\ lastCall[c].err # "" <=> lastCall[c].next # <<>>
        /\ lastCall[c].next # <<>> =>
              /\ lastCall[c].next[Len(lastCall[c].next)] = "tailscale"
              /\ lastCall[c].next =
                     (IF conn[c].anyPasswordIsOkay THEN <<"password", "tailscale">>
                      ELSE IF lastCall[c].err = errPubKeyRequired
                           THEN <<"publickey", "tailscale">>
                      ELSE <<"tailscale">>)
              /\ InSeq("publickey", lastCall[c].next) => prevErr[c] = errPubKeyRequired

\* C19, its case: publickey was offered after the sentinel, although an
\* earlier attempt had failed otherwise
C19_Witness ==
    \E c \in Conns :
        /\ lastCall[c].next = <<"publickey", "tailscale">>
        /\ lastCall[c].cb = "none" /\ tries[c] >= 2

\* the addresses of the connection are not both overlay addresses, or WhoIs
\* does not know the peer
NotOverlay(cx) ==
    \/ cx.src \notin {OverlayIP1, OverlayIP2}
    \/ cx.dst \notin {OverlayIP1, OverlayIP2}
    \/ cx.src \notin DOMAIN WhoIsTable

\* C20: on a connection whose source or destination is no overlay address,
\* or whose peer WhoIs does not know, doPolicyAuth returns denied, never the
\* sentinel, whatever the policy; no callback accepts; and info, action0,
\* currentAction, finalAction and localUser stay unset.
C20_NonOverlayDenied ==
    \A c \in Conns :
        NotOverlay(ctx[c]) =>
            /\ conn[c].info.nil /\ conn[c].action0.nil /\ conn[c].currentAction.nil
            /\ conn[c].finalAction.nil /\ conn[c].localUser = Empty
            /\ ~authed[c] /\ ~everAuthorized[c]
            /\ lastCall[c].cb \in {"none", "publickey"} =>
                  lastCall[c].dErr = "denied" /\ lastCall[c].err = "denied"
            /\ lastCall[c].cb = "password" => lastCall[c].err # ""

\* C20, its case: under a policy that accepts the peer's key, a connection
\* to a local address outside the overlay was denied for none, for the key
\* and for a password
C20_Witness ==
    \E c \in Conns :
        /\ policy = PolKeys /\ ctx[c].src = OverlayIP1 /\ ctx[c].dst = PlainIP
        /\ tries[c] = 3 /\ lastCall[c].cb = "publickey" /\ lastCall[c].key = Key1
        /\ lastCall[c].err = "denied"

\* --------------------------------------------- policy evaluation: C21 to C23

\* the key list of a principal: what its URL gave (nothing when the fetch
\* failed), or its PubKeys
KnownKeys(p, fetch) ==
    IF Len(p.PubKeys) = 1 /\ HasHTTPSPrefix(p.PubKeys[1])
    THEN (IF fetch.err THEN <<>> ELSE fetch.lines)
    ELSE p.PubKeys

\* a principal matches: the identity predicate matches and pub_keys is empty
\* or the client's key matches an entry
PrincipalMatchesAsStated(ci, p, pubKey, fetch) ==
    /\ ~p.nil
    /\ principalMatchesTailscaleIdentity(ci, p)
    /\ \/ Len(p.PubKeys) = 0
       \/ /\ ~pubKey.nil
          /\ \E k \in 1..Len(KnownKeys(p, fetch)) :
                pubKeyMatchesAuthorizedKey(pubKey, KnownKeys(p, fetch)[k])

RuleMatchesAsStated(ci, r, pubKey, fetch) ==
    \E j \in 1..Len(r.Principals) : PrincipalMatchesAsStated(ci, r.Principals[j], pubKey, fetch)

\* rule r can decide: not nil, with an action, not expired, and mapping the
\* requested user (not asked of a Reject)
RuleUsable(ci, r, nw) ==
    /\ ~r.nil /\ ~r.Action.nil
    /\ ~ruleExpired(r, nw)
    /\ r.Action.Reject \/ mapLocalUser(r.SSHUsers, ci.sshUser) # Empty

FirstMatchLaw(call) ==
    LET rules == call.pol.Rules
        Matches(i) == /\ RuleUsable(call.ci, rules[i], call.now)
                      /\ RuleMatchesAsStated(call.ci, rules[i], call.pubKey, call.fetch)
        matching == {i \in 1..Len(rules) : Matches(i)}
    IN IF matching = {} THEN ~call.res.ok
       ELSE LET first == CHOOSE i \in matching : \A j \in matching : i <= j
            IN /\ call.res.ok
               /\ call.res.action = rules[first].Action
               /\ ~rules[first].Action.Reject =>
                      call.res.localUser = mapLocalUser(rules[first].SSHUsers, call.ci.sshUser)

\* C21: evaluatePolicy returns the action and the mapped local user of the
\* first rule, in policy order, that is not nil, has an action, is not
\* expired, maps the requested user (not asked of a Reject) and has a matching
\* principal; it returns an error when there is no such rule.
C21_FirstMatchingRule ==
    evalCall.st = "returned" => FirstMatchLaw(evalCall)

\* C22: a rule that is not expired and maps the requested user matches iff
\* one of its principals matches the identity and, when that principal has
\* pub_keys, the presented key matches one of its entries, whatever the order
\* of the principals and whatever the fetches for the other principals gave.
C22_RuleMatchesIffPrincipal ==
    /\ ruleCall.st = "returned"
    /\ ~ruleCall.ci.nil
    /\ ~ruleCall.r.nil /\ ~ruleCall.r.Action.nil
    /\ ~ruleExpired(ruleCall.r, ruleCall.now)
    /\ mapLocalUser(ruleCall.r.SSHUsers, ruleCall.ci.sshUser) # Empty
    => (ruleCall.res.ok <=>
            RuleMatchesAsStated(ruleCall.ci, ruleCall.r, ruleCall.pubKey, ruleCall.fetch))

\* the value mapLocalUser looked up is "="
LooksUpSame(m, req) ==
    \/ req \in DOMAIN m /\ m[req] = Same
    \/ req \notin DOMAIN m /\ Star \in DOMAIN m /\ m[Star] = Same

\* C23 as stated: a value "=" yields the requested name; when the requested
\* name is not a key and "*" is, the output is ssh_users["*"]; when neither
\* is a key the output is empty.
C23_MapLocalUserAsStated ==
    mapCall.st = "returned" =>
        LET m == mapCall.ruleSSHUsers
            req == mapCall.reqSSHUser
            out == mapCall.localUser
        IN /\ LooksUpSame(m, req) => out = req
           /\ req \notin DOMAIN m /\ Star \in DOMAIN m => out = m[Star]
           /\ req \notin DOMAIN m /\ Star \notin DOMAIN m => out = Empty

\* C23, amended: when the requested name is not a key and "*" is, the output
\* is ssh_users["*"] unless that value is "=", and then the requested name.
C23_MapLocalUser ==
    mapCall.st = "returned" =>
        LET m == mapCall.ruleSSHUsers
            req == mapCall.reqSSHUser
            out == mapCall.localUser
        IN /\ LooksUpSame(m, req) => out = req
           /\ req \notin DOMAIN m /\ Star \in DOMAIN m /\ m[Star] # Same => out = m[Star]
           /\ req \notin DOMAIN m /\ Star \notin DOMAIN m => out = Empty

C23_Witness ==
    /\ mapCall.st = "returned"
    /\ mapCall.reqSSHUser = Bob
    /\ mapCall.ruleSSHUsers = (Alice :> Root) @@ (Star :> Same)
    /\ mapCall.localUser = Bob

\* ----------------------------------------------------- port forwarding: C24

\* C24: the local-port-forward callback allows a forward iff the final action
\* is set and has AllowLocalPortForwarding, and it allows one only when the
\* Accept action that authorized the connection carries the flag.
C24_ForwardOnlyByAuthorizingAction ==
    \A c \in Conns :
        forward[c] # "none" =>
            /\ forward[c] = "allowed" <=>
                   (~conn[c].finalAction.nil /\ conn[c].finalAction.AllowLocalPortForwarding)
            /\ forward[c] = "allowed" =>
                   /\ ~authorizer[c].nil /\ authorizer[c].Accept
                   /\ authorizer[c].AllowLocalPortForwarding

\* ------------------------------------------------------- the set-up of run

\* what a run that gave up during its set-up leaves of session s
SetupGaveUp(s) ==
    /\ exitCode[s] = 1
    /\ pumps[s] = NoPumps
    /\ proc[s] = NoProc
    /\ killer[s] = "none"
    /\ toChild[s] = <<>> /\ toClient[s] = <<>>
    /\ ssPc[s] \in {"detach", "detRemove", "detDone", "closing", "ended"}
    /\ ssPc[s] \in {"closing", "ended"} => ~InSeq(s, sessions[ssConn[s]])

\* the step in which the run of session s gives up leaves the connection, the
\* server and the other sessions as they are
SetupGivesUpAlone(s) ==
    (ssPc[s] = "attached" /\ ssPc'[s] = "detach") =>
        /\ UNCHANGED <<conn, authed, closed, connPc, activeConns, sessions, wg, cMu, srvMu>>
        /\ \A t \in Sess \ {s} :
              /\ ssPc'[t] = ssPc[t] /\ ssCtx'[t] = ssCtx[t] /\ proc'[t] = proc[t]
              /\ exitCode'[t] = exitCode[t] /\ pumps'[t] = pumps[t]

\* C25, as stated: a failed euid check, a failed agent-socket set-up, a
\* failed creation of the recording and a failed spawn each end the session
\* with exit code 1, nothing pumped, the session detached.
C25_SetupFailureAsStated ==
    \A s \in Sess :
        (setup[s].euidErr \/ setup[s].agentErr \/ setup[s].recordingErr \/ setup[s].launchErr)
            => SetupGaveUp(s)

\* C25: a failed euid check, a failed creation of the recording and a failed
\* spawn each end the session with exit code 1, nothing pumped and the session
\* detached, the connection and its other sessions left as they are; a failed
\* agent-socket set-up alone does not end the session, whose process is
\* started.
C25_SetupFailure ==
    /\ [](\A s \in Sess :
            /\ (setup[s].euidErr \/ setup[s].recordingErr \/ setup[s].launchErr)
                  => SetupGaveUp(s)
            /\ (setup[s].agentErr /\ ~setup[s].recordingErr /\ ~setup[s].launchErr)
                  => proc[s] # NoProc /\ pumps[s] # NoPumps)
    /\ [][\A s \in Sess : SetupGivesUpAlone(s)]_vars

\* session 1 gave up at the recording and has ended while session 2 of the
\* same connection runs its process
C25_Witness ==
    /\ setup[1].recordingErr /\ setup[1].agentErr
    /\ ssPc[1] = "ended" /\ exitCode[1] = 1
    /\ ssConn[2] = ssConn[1] /\ proc[2].st = "running"
    /\ connPc[ssConn[1]] = "handling"

\* ---------------------------------------------------------- the recording

\* C26: a write to the recording that fails leaves the session running: its
\* context is not closed with the error of the recording and its process is
\* not killed for it.
C26_RecordingFailureSessionContinues ==
    \A s \in Sess :
        setup[s].recording =>
            /\ ssCtx[s].cause # errLoggerWrite
            /\ ~(proc[s].st = "killed" /\ ssCtx[s].cause = errLoggerWrite)

\* ------------------------------------------ the re-check and the handshake

\* isStillValid runs for connection c
Rechecking(c) == chkPc[c] \in {"eval", "cache"}

\* C27: isStillValid never runs on a connection whose info is set and whose
\* local user is not, and so never reads an unset local user.
C27_RecheckOnlyAfterAuth ==
    \A c \in Conns :
        /\ Rechecking(c) /\ ~conn[c].info.nil => conn[c].localUser # Empty
        /\ chkPc[c] # "panic"

\* --------------------------------------------------- the termination path

\* what the termination path of a session whose context was closed with cause
\* leaves on the session: the message of the cause, when it has one, then Kill
Terminated(log, cause) ==
    IF SSHTerminationMessage(cause) # "" THEN log = <<SSHTerminationMessage(cause), "kill">>
    ELSE log = <<"kill">>

MayStillWrite(s, p) == pumps[s][p].pc \in {"copy", "rec", "fwd"}

\* C29: CloseWrite is called at most once for a session, and only when the
\* stdout copy and, without a pty, the stderr copy have returned.
C29_CloseWriteOnceAfterCopies ==
    \A s \in Sess :
        /\ closeWrites[s] <= 1
        /\ (closeWrites[s] = 1 \/ \E p \in {"stdout", "stderr"} : pumps[s][p].pc = "close") =>
              /\ ~MayStillWrite(s, "stdout") /\ ~MayStillWrite(s, "stderr")
              /\ pumps[s].stdout.pc # "none"
              /\ ~setup[s].pty => pumps[s].stderr.pc # "none"
        /\ closeWrites[s] = 1 => \A p \in {"stdout", "stderr"} : pumps[s][p].pc # "close"

\* a session without pty whose stdout copy forwarded a chunk: both copies
\* have returned, stderr last, and the write-half was closed once
C29_Witness ==
    \E s \in Sess :
        /\ ~setup[s].pty /\ closeWrites[s] = 1
        /\ pumps[s].stdout.pc = "done" /\ pumps[s].stderr.pc = "done"
        /\ toClient[s] # <<>> /\ openOutputStreams[s] = 0

\* ------------------------------------------------- recorded before forwarded

Range(q) == {q[i] : i \in 1..Len(q)}

\* C30: in a recorded session every chunk forwarded to the child's stdin is
\* in the recording as an "i" event and every chunk forwarded to the client
\* as an "o" event, written before the chunk was forwarded; a chunk whose
\* cast line could not be written is not forwarded; the header is the first
\* line of the recording and the only header.
C30_RecordedBeforeForwarded ==
    /\ [](\A s \in Sess :
            setup[s].recording =>
                /\ \A n \in Range(toChild[s]) : <<"i", n>> \in Range(cast[s])
                /\ \A n \in Range(toClient[s]) : <<"o", n>> \in Range(cast[s])
                /\ \A dir \in {"i", "o"} :
                      pumps[s][PumpOf(dir)].pc = "fwd" =>
                          <<dir, pumps[s][PumpOf(dir)].n>> \in Range(cast[s])
                /\ cast[s] # <<>> /\ cast[s][1] = CastHeader
                /\ \A k \in 2..Len(cast[s]) : cast[s][k] # CastHeader)
    /\ [][\A s \in Sess : \A dir \in {"i", "o"} :
            pumps[s][PumpOf(dir)].pc = "rec" /\ cast'[s] = cast[s] =>
                /\ pumps'[s][PumpOf(dir)].pc \in {"rec", CopyReturned(dir)}
                /\ dir = "i" => toChild'[s] = toChild[s]
                /\ dir = "o" => toClient'[s] = toClient[s]]_vars

\* a recorded session forwarded its first chunk of input and chunks of
\* output; the cast line of its second chunk of input could not be written,
\* and that chunk did not reach the child
C30_Witness ==
    \E s \in Sess :
        /\ setup[s].recording /\ ssCtx[s].cause = errLoggerWrite
        /\ toChild[s] = <<1>> /\ pumps[s].stdin = [pc |-> "done", n |-> 2]
        /\ <<"i", 2>> \notin Range(cast[s])
        /\ toClient[s] # <<>>

\* ------------------------------------------------ the mutex of the recording

\* the lines of a recording file are whole: the two parts of a line follow
\* each other, and nothing follows the first part of the line being written
WholeLines(f) ==
    \A k \in 1..Len(f) :
        Len(f[k]) = 3 =>
            /\ f[k][3] = 1 /\ k < Len(f) => f[k + 1] = <<f[k][1], f[k][2], 2>>
            /\ f[k][3] = 2 => k > 1 /\ f[k - 1] = <<f[k][1], f[k][2], 1>>

\* C31: the writers of the two copies and Close hold rec.mu one at a time;
\* every line of the file is whole; once the file is closed nothing is
\* written to it, a write returns "logger closed", and Close closes the file
\* no second time.
C31_RecordingExclusive ==
    /\ [](\A s \in Sess :
            /\ \A t, u \in RecCallers : HoldsRecMu(s, t) /\ HoldsRecMu(s, u) => t = u
            /\ WholeLines(cast[s])
            /\ outCloses[s] <= 1)
    /\ [][\A s \in Sess :
            /\ rec[s] = "closed" =>
                  /\ cast'[s] = cast[s] /\ rec'[s] = "closed" /\ outCloses'[s] = outCloses[s]
                  /\ \A dir \in {"i", "o"} :
                        recPc[s][dir].pc = "locked" /\ recPc'[s][dir].pc # "locked" =>
                            recPc'[s][dir].err = errLoggerClosed]_vars

\* both copies wrote a line while the other waited for rec.mu or had written,
\* Close was called twice, and the second line of the stdin copy, written
\* after Close, failed with "logger closed"
C31_Witness ==
    \E s \in Sess :
        /\ rec[s] = "closed" /\ outCloses[s] = 1
        /\ recPc[s]["close"] = [pc |-> "idle", n |-> 2, err |-> ""]
        /\ recPc[s]["i"] = [pc |-> "idle", n |-> 2, err |-> errLoggerClosed]
        /\ <<"i", 1, 2>> \in Range(cast[s]) /\ <<"o", 1, 2>> \in Range(cast[s])

\* ----------------------------------------------------- the session duration

\* the session was closed by its timer
TimedOut(s) == ssCtx[s].done /\ ssCtx[s].cause = SessionTimeout

\* C32: with a session duration, the timer's function closes the context of
\* a session whose context is still open with the timeout cause, and a
\* process that runs then is ended in the end; without one no session has a
\* timer or is closed by one; the timer's function changes nothing of a
\* session that has ended.
C32_SessionDuration ==
    /\ [](\A s \in Sess :
            /\ timer[s] # "none" => conn[ssConn[s]].finalAction.SessionDuration # 0
            /\ TimedOut(s) => timer[s] = "fired")
    /\ [][\A s \in Sess :
            /\ timer[s] = "firing" /\ timer'[s] = "fired" =>
                  /\ ~ssCtx[s].done => TimedOut(s)'
                  /\ ssPc[s] = "ended" => ssCtx'[s] = ssCtx[s]
            /\ ssPc[s] = "ended" =>
                  proc'[s] = proc[s] /\ kills'[s] = kills[s] /\ exitCode'[s] = exitCode[s]]_vars
    /\ \A s \in Sess : (TimedOut(s) /\ proc[s].st = "running") ~> (proc[s].st # "running")

\* a session timed out while its process ran and the process was killed; the
\* timer of the other session fired as its run returned, and its function
\* ran after the session had ended with the status of its process
C32_Witness ==
    /\ TimedOut(1) /\ proc[1].st = "killed" /\ termLog[1] = <<SessionTimeout, "kill">>
    /\ ssPc[2] = "ended" /\ timer[2] = "fired" /\ ~TimedOut(2) /\ exitCode[2] = 0

\* ------------------------------------------------ the fetch of the delegate

\* the call of fetchSSHAction is in its loop
Fetching == fsa.pc \in {"check", "request", "backoff"}

\* C33: fetchSSHAction tries again after an error of the request, a status
\* other than 200 and a body that does not decode; it returns the action of
\* the first response with status 200 that decodes, and no other action;
\* once the delegate answers so, the context still live, the call returns an
\* action in the end.
C33_FetchRetries ==
    /\ [](fsa.pc = "returned" /\ fsa.err = "" =>
            /\ ~fsa.last.err /\ fsa.last.status = 200 /\ fsa.last.decodes
            /\ fsa.action = fsa.last.action)
    /\ [][fsa.pc = "request" /\ fsa'.pc # "request" =>
            IF fsa'.last.err \/ fsa'.last.status # 200 \/ ~fsa'.last.decodes
            THEN fsa'.pc = "backoff" /\ fsa'.action = NilAction /\ fsa'.err = ""
            ELSE fsa'.pc = "returned" /\ fsa'.action = fsa'.last.action]_vars
    /\ (delegate = "up" /\ Fetching) ~>
           (fsaCtx # "live" \/ (fsa.pc = "returned" /\ fsa.err = "" /\ ~fsa.action.nil))

\* five requests failed or were answered with another status or with a body
\* that does not decode; the delegate then answered 200 with Accept, which
\* the call returned
C33_Witness ==
    /\ fsa.pc = "returned" /\ fsa.n = 5 /\ fsa.action = ActAccept
    /\ fsa.last.status = 200 /\ fsaCtx = "live" /\ delegate = "up"

\* ------------------------------------------- a delegation that failed

\* resolveNextAction returned the error of fetchSSHAction on connection c:
\* the context was done while the delegation was pending
DelegationFailed(c) == conn[c].finalActionErr = "fetching SSHAction"

\* C34: once the fetch of a pending delegation ended with an error (the SSH
\* context cancelled or the deadline passed), the error is recorded as the
\* connection's final error, the connection is not authorized and has no
\* session, and resolveNextAction returns that error without fetching,
\* whatever the delegate would answer.
C34_FetchErrorDeniesConnection ==
    \A c \in Conns : DelegationFailed(c) =>
        /\ ~authed[c]
        /\ sessions[c] = <<>>
        /\ \A answer \in {[err |-> TRUE, action |-> NilAction],
                          [err |-> FALSE, action |-> ActAccept]} :
               LET r == resolveNextAction(conn[c], answer)
               IN  r.err = "fetching SSHAction" /\ ~r.fetched /\ r.c = conn[c]

\* ------------------------------------------- attempts after a failed one

\* the action that doPolicyAuth matched in the last callback of c is a
\* HoldAndDelegate
MatchedHold(c) ==
    LET a == lastCall[c].c0.currentAction
    IN  lastCall[c].dErr = "" /\ ~a.Accept /\ ~a.Reject /\ a.HoldAndDelegate # ""

\* C36: a callback whose matched action is a HoldAndDelegate and whose
\* isAuthorized returned nil fetched the delegate during that callback, and
\* the last action fetched is an Accept: nothing left final on the
\* connection by an earlier attempt authorizes it.
C36_HoldAuthorizedByItsOwnChain ==
    \A c \in Conns :
        lastCall[c].authorized /\ MatchedHold(c) =>
            /\ lastCall[c].answers # <<>>
            /\ LET last == lastCall[c].answers[Len(lastCall[c].answers)]
               IN  ~last.err /\ last.action.Accept

\* ------------------------------------------- what a running session reads

\* run is past its attach: it reads conn.finalAction for the session
\* duration and the agent forwarding, and conn.localUser for the process
PastAttach(s) == ssPc[s] = "attached"

\* C37: once run is past attachSession, the final action of the session's
\* connection is set and is an Accept, and the connection's local user is
\* set, whatever callbacks made up the handshake.
C37_RunningSessionHasAccept ==
    \A s \in Sess :
        PastAttach(s) =>
            /\ ~conn[ssConn[s]].finalAction.nil
            /\ conn[ssConn[s]].finalAction.Accept
            /\ conn[ssConn[s]].localUser # Empty

\* ------------------------------------------------- Shutdown comes to an end

\* the goroutine of run, from attachSession to its return
runSteps(s) ==
    \/ attachLock(s) \/ attachCheck(s) \/ attachConnLock(s) \/ attachAppend(s)
    \/ refusedExit(s)
    \/ setupAndLaunch(s, PlainSetups)
    \/ cmdWaitReturns(s) \/ runExitOnce(s)
    \/ detachLock(s) \/ detachRemove(s) \/ detachDone(s) \/ runReturns(s)

\* the goroutine of killProcessOnContextDone
killProcessOnContextDone(s) == killerWakes(s) \/ killerKills(s)

\* a connection is accepted, its sessions attach, run and detach, the
\* client goes away, and Shutdown is called at any time
NextShutdown ==
    \/ connSteps(1)
    \/ NoClientAuthCallback(1, QuietEnvs)
    \/ \E s \in Sess : handleSessionPostSSHAuth(1, s) \/ sessionSteps(s)
    \/ Shutdown

\* every goroutine that can run is run in the end; Process.Kill makes
\* cmd.Wait return (killerKills leaves the process killed)
SpecShutdown ==
    /\ InitSrv /\ [][NextShutdown]_vars
    /\ WF_vars(Shutdown)
    /\ \A s \in Sess : WF_vars(runSteps(s)) /\ WF_vars(killProcessOnContextDone(s))

\* session s is in the session list of its connection
Attached(s) == \E c \in Conns : InSeq(s, sessions[c])

\* C35: once Shutdown has set the fence and closed the active connections,
\* every attached session is detached in the end and Shutdown returns,
\* however connections and sessions are interleaved with it.
C35_ShutdownTerminates ==
    /\ (shutPc = "waiting") ~> (shutPc = "returned")
    /\ \A s \in Sess : (shutPc = "waiting" /\ Attached(s)) ~> ~Attached(s)

\* Shutdown has returned after it found a session running its process, which
\* it made end: the process was killed and the session is detached
C35_Witness ==
    /\ shutPc = "returned" /\ wg = 0
    /\ \E s \in Sess : proc[s].st = "killed" /\ ssPc[s] = "ended" /\ ~Attached(s)

\* ------------------------------------------- sessions after a revocation

\* the policy no longer allows connection c, whatever key list is fetched,
\* and no re-check of c is pending or in flight
Invalidated(c) ==
    /\ opcPc = "idle" /\ chkPc[c] = "idle"
    /\ \A f \in KeyFetches : NoLongerValid(c, f)

\* C38: once a re-check has revoked a session of a connection that the
\* policy still does not allow, no session of that connection has its process
\* running with its context open, whenever it attached.
C38_NoSessionOutlivesRevocation ==
    \A c \in Conns : \A s, t \in Sess :
        /\ Invalidated(c)
        /\ ssConn[t] = c /\ Revoked(t)
        /\ ssConn[s] = c /\ InSeq(s, sessions[c]) /\ proc[s].st = "running"
        => ssCtx[s].done

\* ------------------------------------------------------ agent forwarding

\* a run whose agent forwarding meets every outcome, launched or not
AgentSetups ==
    {su \in Setups : su.euidOK /\ ~su.pty /\ ~su.record /\ su.recordingOK}

InitAgent ==
    \E pol \in {PolAcceptLogin, PolAcceptAgent} : InitWith(pol, [c \in Conns |-> PlainCtx])

\* The sessions of one connection whose policy allows agent forwarding or
\* not, the first one requesting it or not, on a host where any step of the
\* set-up of the socket may fail.
NextAgent ==
    \/ newConn(1)
    \/ trackActiveConnAdd(1)
    \/ NoClientAuthCallback(1, QuietEnvs)
    \/ \E s \in Sess :
          \/ handleSessionPostSSHAuth(1, s)
          \/ attachedStepsWith(s, IF s = 1 THEN AgentSetups ELSE PlainSetups)
          \/ pumpError(s)

SpecAgent == InitAgent /\ [][NextAgent]_vars

\* C39: when handleSSHAgentForwarding returned an error after it had made
\* the listener, the listener is closed and ss.agentListener is unset; a
\* listener that was assigned to ss.agentListener is closed once when the
\* session has ended; no listener is made when the client did not request
\* the forwarding or the final action does not allow it.
C39_AgentListenerClosed ==
    \A s \in Sess :
        /\ setup[s].agentErr /\ agent[s].created =>
               agent[s].closes = 1 /\ ~agent[s].set
        /\ agent[s].set /\ ssPc[s] = "ended" => agent[s].closes = 1
        /\ agent[s].created =>
               /\ agent[s].requested
               /\ conn[ssConn[s]].finalAction.AllowAgentForwarding

\* ------------------------------------------------ the return of run

\* the process of session s was launched: its killProcessOnContextDone runs
Launched(s) == killer[s] # "none"

\* C40: a run that has returned after launching its process has closed the
\* context of the session and left conn.sessions; the
\* killProcessOnContextDone goroutine of such a session ends; and once
\* cmd.Wait has returned the session leaves conn.sessions in the end.
C40_RunReturnCleansUp ==
    /\ [](\A s \in Sess :
            Launched(s) /\ ssPc[s] = "ended" => ssCtx[s].done /\ ~Attached(s))
    /\ \A s \in Sess : (Launched(s) /\ ssPc[s] = "ended") ~> (killer[s] = "done")
    /\ \A s \in Sess : (ssPc[s] = "once") ~> ~Attached(s)

\* the process of a session ended by itself and was never killed; run
\* returned, which closed the context, and the killer then ended
C40_Witness ==
    \E s \in Sess :
        /\ ssPc[s] = "ended" /\ proc[s].st = "exited" /\ kills[s] = 0
        /\ ssCtx[s] = [done |-> TRUE, cause |-> errSessionDone]
        /\ killer[s] = "done" /\ ~Attached(s)

====
